---- MODULE Spec2Model ----
(***************************************************************************)
(* Model of the Chrome network capture daemon (scripts/daemon.py):        *)
(* the request ledger (RequestStore), the URL / MIME filters, the command *)
(* correlator (send_command / handle_message), the log writer with its    *)
(* pause gate and size-triggered rotation, the decoding of fetched        *)
(* bodies (get_response_body), and the supervision loop (run / connect).  *)
(*                                                                         *)
(* Strings on which the code does text operations (substring, prefix)     *)
(* are sequences of one-character strings, so that "in" and "startswith"  *)
(* are computed character by character, letter case included.             *)
(***************************************************************************)
EXTENDS Integers, Sequences, FiniteSets, TLC

VARIABLES
    requests,          \* RequestStore.requests: request id -> entry (a dict)
    sessions,          \* ChromeLogDaemon.sessions: its items, in insertion order
    msg_id,            \* ChromeLogDaemon.msg_id
    pending_commands,  \* keys of ChromeLogDaemon.pending_commands
    futures,           \* state of the future created for each command id
    ws_sent,           \* command messages transmitted on the websocket
    conn,              \* the websocket: "open" or "closed"
    files,             \* log directory: suffix -> file (0 is requests.jsonl)
    paused,            \* the pause marker file exists
    pc,                \* where the daemon's task is (run, connect, receive loop)
    cur,               \* locals of the suspended handler
    callers,           \* send_command invocations made by concurrent tasks
    nlines,            \* number of lines ever put into the log files
    seen,              \* per request id: what events were received (history)
    out,               \* per request id: what the writer did (history)
    running,           \* ChromeLogDaemon.running
    pid_file,          \* the PID file exists
    attempts,          \* calls of connect() made by run()
    replied,           \* command ids the browser has sent a reply for (history)
    grace,             \* running was cleared while the loop was inside ws.recv()
    ended,             \* how the last connect() and how run() ended (history)
    fetch_result,      \* what send_command returned to get_response_body
    returned_body,     \* what get_response_body returned
    hist               \* what frames were handled, per session and request (history)

vars == <<requests, sessions, msg_id, pending_commands, futures, ws_sent, conn,
          files, paused, pc, cur, callers, nlines, seen, out,
          running, pid_file, attempts, replied, grace, ended, fetch_result, returned_body,
          hist>>

----------------------------------------------------------------------------
(* Constants of daemon.py *)

MAX_BODY_SIZE == 102400
MAX_LOG_SIZE == 52428800
MAX_ROTATED_FILES == 3

SKIP_URL_PATTERNS ==
    << <<"g","o","o","g","l","e","-","a","n","a","l","y","t","i","c","s",".","c","o","m">>,
       <<"d","o","u","b","l","e","c","l","i","c","k",".","n","e","t">>,
       <<"g","o","o","g","l","e","s","y","n","d","i","c","a","t","i","o","n",".","c","o","m">>,
       <<"g","o","o","g","l","e","a","d","s","e","r","v","i","c","e","s",".","c","o","m">>,
       <<"p","l","a","y",".","g","o","o","g","l","e",".","c","o","m","/","l","o","g">>,
       <<"f","o","n","t","s",".","g","o","o","g","l","e","a","p","i","s",".","c","o","m">>,
       <<"f","o","n","t","s",".","g","s","t","a","t","i","c",".","c","o","m">> >>

SKIP_MIME_TYPES ==
    << <<"i","m","a","g","e","/">>,
       <<"f","o","n","t","/">>,
       <<"a","u","d","i","o","/">>,
       <<"v","i","d","e","o","/">>,
       <<"a","p","p","l","i","c","a","t","i","o","n","/","o","c","t","e","t","-","s","t","r","e","a","m">>,
       <<"a","p","p","l","i","c","a","t","i","o","n","/","p","d","f">>,
       <<"a","p","p","l","i","c","a","t","i","o","n","/","z","i","p">> >>

----------------------------------------------------------------------------
(* Bounds of the model and the inputs the environment draws from *)

\* Request-started events handled in one run (each can lead to one line).
MaxStarts == 2

RequestIds == {"r1", "r2"}
SessionIds == {"s1"}

UrlApi     == <<"a","p","i",".","i","o","/","v","1">>
UrlGaLower == <<"g","o","o","g","l","e","-","a","n","a","l","y","t","i","c","s",".","c","o","m","/","c">>
UrlGaUpper == <<"G","O","O","G","L","E","-","A","N","A","L","Y","T","I","C","S",".","C","O","M","/","c">>
Urls == {UrlApi, UrlGaLower, UrlGaUpper}

MimeHtml  == <<"t","e","x","t","/","h","t","m","l">>
MimePng   == <<"i","m","a","g","e","/","p","n","g">>
Mimes == {MimeHtml, MimePng}

\* postData of a request, modelled by its length in bytes (0: no body).
\* A request body whose JSON line alone is larger than the rotation
\* threshold makes a second rotation in one run possible.
HugePostData == MAX_LOG_SIZE + 1
PostDataLens == {0, HugePostData}

EmptyMap == [x \in {} |-> x]

\* what the browser answers to a command: a result or an error
ReplyResults == { [result |-> EmptyMap], [error |-> "failed"] }

\* Commands issued in one run of the correlator specification.
MaxCommands == 3

\* Request-started events and commands in one run of the session
\* specification.
MaxSessStarts == 1
MaxSessCommands == 2

\* the request whose events come while the sessions change
SessRequests == {"r1"}

\* the sessions the browser reports, and what it says of their targets
TabSessions == {"s1", "s2"}
TargetIds   == {"t1", "t2"}
UrlHome     == <<"h","o","m","e">>
UrlNext     == <<"n","e","x","t">>
PageInfos   == { [targetId |-> t, type |-> "page", url |-> u] :
                   t \in TargetIds, u \in {UrlHome, UrlNext} }
\* a tab is at its first page when the browser reports the attach
NewPageInfos == { info \in PageInfos : info.url = UrlHome }
\* a target that is not a page
WorkerInfos == { [targetId |-> "w1", type |-> "service_worker", url |-> UrlHome] }

----------------------------------------------------------------------------
(* Python text operations *)

\* pattern in url
Contains(pattern, s) ==
    \E i \in 1..(Len(s) - Len(pattern) + 1) :
        SubSeq(s, i, i + Len(pattern) - 1) = pattern

\* s.startswith(pattern)
StartsWith(s, pattern) ==
    /\ Len(s) >= Len(pattern)
    /\ SubSeq(s, 1, Len(pattern)) = pattern

\* dict.get(key, default)
Get(d, key, default) == IF key \in DOMAIN d THEN d[key] ELSE default

\* dict.update(data) / {**a, **b}
Update(d, data) ==
    [k \in DOMAIN d \cup DOMAIN data |-> IF k \in DOMAIN data THEN data[k] ELSE d[k]]

\* dict without one key (dict.pop(key, None) on a copy)
Without(d, key) == [k \in DOMAIN d \ {key} |-> d[k]]

(* A dict whose iteration order matters is the sequence of its items, in  *)
(* insertion order.                                                        *)

Item(key, value) == [key |-> key, value |-> value]

\* d.keys()
Keys(d) == { d[i].key : i \in DOMAIN d }

\* the place of key among the items
IndexOf(d, key) == CHOOSE i \in DOMAIN d : d[i].key = key

\* d.get(key, default)
Lookup(d, key, default) ==
    IF key \in Keys(d) THEN d[IndexOf(d, key)].value ELSE default

\* d[key] = value: a key already there keeps its place, a new one goes last
Assign(d, key, value) ==
    IF key \in Keys(d)
    THEN [d EXCEPT ![IndexOf(d, key)] = Item(key, value)]
    ELSE Append(d, Item(key, value))

\* d.pop(key, default), for what is left in d
Pop(d, key) ==
    LET others == { i \in DOMAIN d : d[i].key # key }
        RECURSIVE Kept(_)
        Kept(i) == IF i > Len(d) THEN << >>
                   ELSE IF i \in others THEN << d[i] >> \o Kept(i + 1)
                   ELSE Kept(i + 1)
    IN  Kept(1)

----------------------------------------------------------------------------
(* Filter policy *)

should_skip_url(url) ==
    \E i \in 1..Len(SKIP_URL_PATTERNS) : Contains(SKIP_URL_PATTERNS[i], url)

should_skip_mime(mime) ==
    IF mime = << >>
    THEN FALSE
    ELSE \E i \in 1..Len(SKIP_MIME_TYPES) : StartsWith(mime, SKIP_MIME_TYPES[i])

----------------------------------------------------------------------------
(* RequestStore: each operator gives the new value of store.requests *)

start_request(store, request_id, data) ==
    [r \in DOMAIN store \cup {request_id} |->
        IF r = request_id THEN Update([id |-> request_id], data) ELSE store[r]]

\* mutant: update_request without its membership test
update_request_creating(store, request_id, data) ==
    [r \in DOMAIN store \cup {request_id} |->
        IF r = request_id
        THEN Update(IF r \in DOMAIN store THEN store[r] ELSE [id |-> r], data)
        ELSE store[r]]

update_request(store, request_id, data) ==
    IF request_id \in DOMAIN store
    THEN [store EXCEPT ![request_id] = Update(@, data)]
    ELSE store

\* mutant: complete_request that reads the entry (get) and leaves it in place
complete_request_keeping(store, request_id) == store

\* the store after complete_request (pop); the popped entry is store[request_id]
complete_request(store, request_id) ==
    [r \in DOMAIN store \ {request_id} |-> store[r]]

----------------------------------------------------------------------------
(* Persistence and rotation.  A directory maps the suffixes of the files  *)
(* that exist to their contents: suffix 0 is requests.jsonl, suffix i is  *)
(* requests.jsonl.i.  A file is a sequence of lines; a line carries the   *)
(* record, its length in bytes and the number of its write (its age).     *)

RECURSIVE SumBytes(_)
SumBytes(f) == IF f = << >> THEN 0 ELSE f[1].bytes + SumBytes(Tail(f))

\* log_file.stat().st_size
st_size(f) == SumBytes(f)

\* len(json.dumps(request) + '\n'): the bytes of the url, of the request
\* body and of the newline are counted; the other fields are short and of
\* fixed size in this model
LineBytes(request) == Len(request.url) + request.requestBody + 1

\* Path.exists / unlink / rename (POSIX rename replaces the destination)
Exists(dir, i) == i \in DOMAIN dir

Unlink(dir, i) == [j \in DOMAIN dir \ {i} |-> dir[j]]

Rename(dir, src, dst) ==
    [j \in (DOMAIN dir \ {src}) \cup {dst} |-> IF j = dst THEN dir[src] ELSE dir[j]]

\* mutant: the shift loop counting up, for j in range(1, MAX_ROTATED_FILES)
RECURSIVE ShiftUp(_, _, _)
ShiftUp(dir, j, top) ==
    IF j > top
    THEN dir
    ELSE ShiftUp(IF Exists(dir, j) THEN Rename(dir, j, j + 1) ELSE dir, j + 1, top)

ShiftExisting_ascending(dir, i) == ShiftUp(dir, 1, i)

\* for i in range(MAX_ROTATED_FILES - 1, 0, -1): rename .i to .(i+1) if it exists
RECURSIVE ShiftExisting(_, _)
ShiftExisting(dir, i) ==
    IF i <= 0
    THEN dir
    ELSE ShiftExisting(IF Exists(dir, i) THEN Rename(dir, i, i + 1) ELSE dir, i - 1)

\* mutant: rotate_logs without its last step, the rename of the active file
rotate_logs_keeping_active(dir) ==
    LET deleted == IF Exists(dir, MAX_ROTATED_FILES)
                   THEN Unlink(dir, MAX_ROTATED_FILES)
                   ELSE dir
    IN  ShiftExisting(deleted, MAX_ROTATED_FILES - 1)

rotate_logs(dir) ==
    LET deleted == IF Exists(dir, MAX_ROTATED_FILES)
                   THEN Unlink(dir, MAX_ROTATED_FILES)
                   ELSE dir
        shifted == ShiftExisting(deleted, MAX_ROTATED_FILES - 1)
    IN  IF Exists(shifted, 0) THEN Rename(shifted, 0, 1) ELSE shifted

\* mutant: rotation triggered at the threshold already
needs_rotation_at_threshold(dir) == Exists(dir, 0) /\ st_size(dir[0]) >= MAX_LOG_SIZE

\* the condition under which write_request rotates
needs_rotation(dir) == Exists(dir, 0) /\ st_size(dir[0]) > MAX_LOG_SIZE

\* open(log_file, 'a').write(line): creates the file when it is missing
AppendLine(dir, line) ==
    [j \in DOMAIN dir \cup {0} |->
        IF j = 0
        THEN (IF Exists(dir, 0) THEN Append(dir[0], line) ELSE <<line>>)
        ELSE dir[j]]

\* mutant: the pause marker is not looked at
is_paused_never == FALSE

\* mutant: the marker is not read again once it was found absent at a write
is_paused_cached == IF nlines > 0 THEN FALSE ELSE paused

is_paused == paused

\* write_request(request): the new files, the line counter, and the writer's
\* history for the record's id
write_request(request) ==
    IF is_paused
    THEN /\ UNCHANGED <<files, nlines>>
         /\ out' = [out EXCEPT ![request.id].dropped = @ + 1]
    ELSE LET dir  == IF needs_rotation(files) THEN rotate_logs(files) ELSE files
             line == [rec |-> request, bytes |-> LineBytes(request), n |-> nlines + 1]
         IN  /\ files' = AppendLine(dir, line)
             /\ nlines' = nlines + 1
             /\ out' = [out EXCEPT ![request.id].appended = @ + 1]

----------------------------------------------------------------------------
(* Command correlation: send_command up to its await, and the timeout *)

corrVars == <<msg_id, pending_commands, futures, ws_sent, conn>>
logVars  == <<files, nlines, out>>
taskVars == <<pc, cur>>
runVars  == <<running, pid_file, attempts, replied, grace, ended>>
bodyVars == <<fetch_result, returned_body>>

PendingFuture == [state |-> "pending", result |-> EmptyMap]

\* send_command, lines 118-130: take the next id and register the future
RegisterCommand ==
    /\ msg_id' = msg_id + 1
    /\ pending_commands' = pending_commands \cup {msg_id + 1}
    /\ futures' = [i \in DOMAIN futures \cup {msg_id + 1} |->
                      IF i = msg_id + 1 THEN PendingFuture ELSE futures[i]]

CommandMessage(id, method, params, session_id) ==
    [id |-> id, method |-> method, params |-> params, sessionId |-> session_id]

\* mutant: the timeout without the pop of line 138
TimeoutCommand_keeping_entry(id) ==
    /\ futures' = [futures EXCEPT ![id] = [state |-> "cancelled", result |-> EmptyMap]]
    /\ UNCHANGED pending_commands

\* asyncio.wait_for expiring on command id: the future is cancelled and
\* send_command removes the id from the table before raising TimeoutError
TimeoutCommand(id) ==
    /\ futures' = [futures EXCEPT ![id] = [state |-> "cancelled", result |-> EmptyMap]]
    /\ pending_commands' = pending_commands \ {id}

----------------------------------------------------------------------------
(* Event handlers *)

NoBody == << >>

\* (a url is the sequence of its characters: the empty one is << >>)
\* mutant: handle_request_will_be_sent without the url filter
handle_request_will_be_sent_unfiltered(params, session_id) ==
    LET request_id  == params.requestId
        request     == params.request
        target_info == Lookup(sessions, session_id, EmptyMap)
    IN  /\ requests' = start_request(requests, request_id,
                [session_id  |-> session_id,
                 tab         |-> [id  |-> Get(target_info, "targetId", ""),
                                  url |-> Get(target_info, "url", << >>)],
                 url         |-> request.url,
                 requestBody |-> request.postData])
        /\ UNCHANGED <<sessions, corrVars, logVars, taskVars>>

handle_request_will_be_sent(params, session_id) ==
    LET request_id == params.requestId
        request    == params.request
        url        == request.url
    IN  /\ IF should_skip_url(url)
           THEN UNCHANGED requests
           ELSE LET target_info == Lookup(sessions, session_id, EmptyMap)
                IN  requests' = start_request(requests, request_id,
                        [session_id  |-> session_id,
                         tab         |-> [id  |-> Get(target_info, "targetId", ""),
                                          url |-> Get(target_info, "url", << >>)],
                         url         |-> url,
                         requestBody |-> request.postData])
        /\ UNCHANGED <<sessions, corrVars, logVars, taskVars>>

\* mutant: handle_response_received that returns on an excluded MIME
\* without removing the entry
handle_response_received_keeping(params, session_id) ==
    LET request_id == params.requestId
        response   == params.response
        mime       == response.mimeType
    IN  /\ IF should_skip_mime(mime)
           THEN UNCHANGED requests
           ELSE requests' = update_request(requests, request_id,
                                [status |-> response.status, mime |-> mime])
        /\ UNCHANGED <<sessions, corrVars, logVars, taskVars>>

\* mutant: handle_response_received that stores whatever MIME it is given
handle_response_received_storing(params, session_id) ==
    LET request_id == params.requestId
        response   == params.response
    IN  /\ requests' = update_request(requests, request_id,
                            [status |-> response.status, mime |-> response.mimeType])
        /\ UNCHANGED <<sessions, corrVars, logVars, taskVars>>

handle_response_received(params, session_id) ==
    LET request_id == params.requestId
        response   == params.response
        mime       == response.mimeType
    IN  /\ IF should_skip_mime(mime)
           THEN requests' = complete_request(requests, request_id)
           ELSE requests' = update_request(requests, request_id,
                                [status |-> response.status, mime |-> mime])
        /\ UNCHANGED <<sessions, corrVars, logVars, taskVars>>

\* mutant: the tab of the record is read from the registry at finalize
complete_and_write_current_tab(store, request_id) ==
    IF request_id \in DOMAIN store
    THEN LET target_info == Lookup(sessions, store[request_id].session_id, EmptyMap)
             tab == [id  |-> Get(target_info, "targetId", ""),
                     url |-> Get(target_info, "url", << >>)]
         IN  /\ requests' = complete_request(store, request_id)
             /\ write_request(Without(Update(store[request_id], [tab |-> tab]),
                                      "session_id"))
    ELSE /\ requests' = store
         /\ UNCHANGED logVars

\* completed = store.complete_request(request_id); if completed: drop the
\* session_id and write it (the tail of both terminal handlers)
complete_and_write(store, request_id) ==
    IF request_id \in DOMAIN store
    THEN /\ requests' = complete_request(store, request_id)
         /\ write_request(Without(store[request_id], "session_id"))
    ELSE /\ requests' = store
         /\ UNCHANGED logVars

\* mutant: handle_loading_failed without line 285
handle_loading_failed_without_error(params, session_id) ==
    /\ complete_and_write(requests, params.requestId)
    /\ UNCHANGED <<sessions, corrVars, taskVars>>

handle_loading_failed(params, session_id) ==
    LET request_id == params.requestId
        error      == params.errorText
    IN  /\ IF request_id \in DOMAIN requests
           THEN complete_and_write(
                    [requests EXCEPT ![request_id] = Update(@, [error |-> error])],
                    request_id)
           ELSE UNCHANGED <<requests, logVars>>
        /\ UNCHANGED <<sessions, corrVars, taskVars>>

\* handle_loading_finished up to the await inside get_response_body.
\* sent: ws.send succeeded (otherwise it raised ConnectionClosed, which
\* get_response_body catches and turns into "no body").
handle_loading_finished(params, session_id, sent) ==
    LET request_id == params.requestId
    IN  IF request_id \notin DOMAIN requests
        THEN UNCHANGED <<requests, sessions, corrVars, logVars, taskVars>>
        ELSE LET store == [requests EXCEPT ![request_id] =
                              Update(@, [size |-> params.encodedDataLength])]
                 mime  == Get(store[request_id], "mime", << >>)
             IN  /\ UNCHANGED sessions
                 /\ IF ~should_skip_mime(mime)
                    THEN /\ RegisterCommand
                         /\ IF sent
                            THEN /\ ws_sent' = ws_sent \cup
                                       {CommandMessage(msg_id + 1, "Network.getResponseBody",
                                            [requestId |-> request_id], session_id)}
                                 /\ requests' = store
                                 /\ pc' = "get_response_body"
                                 /\ cur' = [request_id |-> request_id,
                                            session_id |-> session_id,
                                            msg_id     |-> msg_id + 1]
                                 /\ UNCHANGED <<conn, logVars>>
                            ELSE /\ conn' = "closed"
                                 /\ complete_and_write(store, request_id)
                                 /\ UNCHANGED <<ws_sent, taskVars>>
                    ELSE /\ complete_and_write(store, request_id)
                         /\ UNCHANGED <<corrVars, taskVars>>

\* mutant: a loading-finished handler that finalizes only with a body
resume_loading_finished_requiring_body(body) ==
    /\ IF body # NoBody
       THEN complete_and_write(
                [requests EXCEPT ![cur.request_id] = Update(@, [responseBody |-> body])],
                cur.request_id)
       ELSE UNCHANGED <<requests, logVars>>
    /\ pc' = "idle"
    /\ cur' = EmptyMap

\* handle_loading_finished from the return of get_response_body on
resume_loading_finished(body) ==
    LET request_id == cur.request_id
        store == IF body # NoBody /\ request_id \in DOMAIN requests
                 THEN [requests EXCEPT ![request_id] = Update(@, [responseBody |-> body])]
                 ELSE requests
    IN  /\ complete_and_write(store, request_id)
        /\ pc' = "idle"
        /\ cur' = EmptyMap

\* enable_network, lines 144-147: the parameters of Network.enable
EnableParams == [maxTotalBufferSize |-> 10000000, maxResourceBufferSize |-> 5000000]

\* mutant: handle_attached_to_target without the test of the target type
handle_attached_to_target_any_type(params, sent) ==
    LET session_id  == params.sessionId
        target_info == Get(params, "targetInfo", EmptyMap)
    IN  /\ sessions' = Assign(sessions, session_id, target_info)
        /\ RegisterCommand
        /\ IF sent
           THEN /\ ws_sent' = ws_sent \cup
                      {CommandMessage(msg_id + 1, "Network.enable", EnableParams,
                                      session_id)}
                /\ pc' = "enable_network"
                /\ cur' = [session_id |-> session_id, msg_id |-> msg_id + 1]
                /\ UNCHANGED conn
           ELSE /\ conn' = "closed"
                /\ UNCHANGED <<ws_sent, taskVars>>
        /\ UNCHANGED <<requests, logVars>>

\* handle_attached_to_target up to the await inside enable_network.
\* sent: ws.send succeeded (otherwise it raised ConnectionClosed, which
\* enable_network catches and logs).
handle_attached_to_target(params, sent) ==
    LET session_id  == params.sessionId
        target_info == Get(params, "targetInfo", EmptyMap)
    IN  IF Get(target_info, "type", "") # "page"
        THEN UNCHANGED <<requests, sessions, corrVars, logVars, taskVars>>
        ELSE /\ sessions' = Assign(sessions, session_id, target_info)
             /\ RegisterCommand
             /\ IF sent
                THEN /\ ws_sent' = ws_sent \cup
                           {CommandMessage(msg_id + 1, "Network.enable", EnableParams,
                                           session_id)}
                     /\ pc' = "enable_network"
                     /\ cur' = [session_id |-> session_id, msg_id |-> msg_id + 1]
                     /\ UNCHANGED conn
                ELSE /\ conn' = "closed"
                     /\ UNCHANGED <<ws_sent, taskVars>>
             /\ UNCHANGED <<requests, logVars>>

\* mutant: enable_network without its except clause: the failure ends
\* the connection
resume_attached_to_target_fatal ==
    /\ pc' = "idle"
    /\ cur' = EmptyMap
    /\ conn' = "closed"
    /\ UNCHANGED sessions

\* handle_attached_to_target from the return of enable_network on: the
\* exception was caught and logged (lines 149-150), the handler is over
resume_attached_to_target ==
    /\ pc' = "idle"
    /\ cur' = EmptyMap
    /\ UNCHANGED <<sessions, conn>>

handle_detached_from_target(params) ==
    /\ sessions' = Pop(sessions, params.sessionId)
    /\ UNCHANGED <<requests, corrVars, logVars, taskVars>>

\* mutant: handle_target_info_changed without the break of line 321
handle_target_info_changed_every_match(params) ==
    LET target_info == Get(params, "targetInfo", EmptyMap)
        target_id   == Get(target_info, "targetId", "")
    IN  /\ sessions' = [i \in DOMAIN sessions |->
                           IF Get(sessions[i].value, "targetId", "") = target_id
                           THEN Item(sessions[i].key, target_info)
                           ELSE sessions[i]]
        /\ UNCHANGED <<requests, corrVars, logVars, taskVars>>

\* the sessions whose metadata carries target_id, by place in the registry
Matching(target_id) ==
    { i \in DOMAIN sessions : Get(sessions[i].value, "targetId", "") = target_id }

handle_target_info_changed(params) ==
    LET target_info == Get(params, "targetInfo", EmptyMap)
        target_id   == Get(target_info, "targetId", "")
        found       == Matching(target_id)
    IN  /\ IF found = {}
           THEN UNCHANGED sessions
           ELSE LET first == CHOOSE i \in found : \A j \in found : i <= j
                IN  sessions' = [sessions EXCEPT ![first].value = target_info]
        /\ UNCHANGED <<requests, corrVars, logVars, taskVars>>

\* mutant: a reply resolves the oldest pending command, whatever its id
handle_reply_in_send_order(data) ==
    LET id == IF pending_commands = {} THEN data.id
              ELSE CHOOSE i \in pending_commands : \A j \in pending_commands : i <= j
    IN  /\ IF data.id \in pending_commands
           THEN /\ pending_commands' = pending_commands \ {id}
                /\ futures' = IF futures[id].state = "pending"
                              THEN [futures EXCEPT ![id] = [state |-> "done", result |-> data]]
                              ELSE futures
           ELSE UNCHANGED <<pending_commands, futures>>
        /\ UNCHANGED <<requests, sessions, msg_id, ws_sent, conn, logVars, taskVars>>

\* handle_message, lines 331-337: a frame with an id is a reply
handle_reply(data) ==
    LET id == data.id
    IN  /\ IF id \in pending_commands
           THEN /\ pending_commands' = pending_commands \ {id}
                /\ futures' = IF futures[id].state = "pending"
                              THEN [futures EXCEPT ![id] = [state |-> "done", result |-> data]]
                              ELSE futures
           ELSE UNCHANGED <<pending_commands, futures>>
        /\ UNCHANGED <<requests, sessions, msg_id, ws_sent, conn, logVars, taskVars>>

\* mutant: handle_message that looks at the method before the id
handle_message_method_first(message, sent) ==
    IF ~message.ok
    THEN UNCHANGED <<requests, sessions, corrVars, logVars, taskVars>>
    ELSE LET data       == message.data
             method     == Get(data, "method", "")
             params     == Get(data, "params", EmptyMap)
             session_id == Get(data, "sessionId", "")
         IN  CASE method = "Network.requestWillBeSent" ->
                      handle_request_will_be_sent(params, session_id)
               [] method = "Network.responseReceived" ->
                      handle_response_received(params, session_id)
               [] method = "Network.loadingFinished" ->
                      handle_loading_finished(params, session_id, sent)
               [] method = "Network.loadingFailed" ->
                      handle_loading_failed(params, session_id)
               [] method = "Target.attachedToTarget" ->
                      handle_attached_to_target(params, sent)
               [] method = "Target.detachedFromTarget" ->
                      handle_detached_from_target(params)
               [] method = "Target.targetInfoChanged" ->
                      handle_target_info_changed(params)
               [] OTHER ->
                      IF "id" \in DOMAIN data
                      THEN handle_reply(data)
                      ELSE UNCHANGED <<requests, sessions, corrVars, logVars, taskVars>>

\* sent: whether a command this frame's handler transmits goes out
handle_message(message, sent) ==
    IF ~message.ok
    THEN UNCHANGED <<requests, sessions, corrVars, logVars, taskVars>>
    ELSE LET data == message.data
         IN  IF "id" \in DOMAIN data
             THEN handle_reply(data)
             ELSE LET method     == Get(data, "method", "")
                      params     == Get(data, "params", EmptyMap)
                      session_id == Get(data, "sessionId", "")
                  IN  CASE method = "Network.requestWillBeSent" ->
                               handle_request_will_be_sent(params, session_id)
                        [] method = "Network.responseReceived" ->
                               handle_response_received(params, session_id)
                        [] method = "Network.loadingFinished" ->
                               handle_loading_finished(params, session_id, sent)
                        [] method = "Network.loadingFailed" ->
                               handle_loading_failed(params, session_id)
                        [] method = "Target.attachedToTarget" ->
                               handle_attached_to_target(params, sent)
                        [] method = "Target.detachedFromTarget" ->
                               handle_detached_from_target(params)
                        [] method = "Target.targetInfoChanged" ->
                               handle_target_info_changed(params)
                        [] OTHER ->
                               UNCHANGED <<requests, sessions, corrVars, logVars, taskVars>>

----------------------------------------------------------------------------
(* Frames the browser can send.  A frame is the text handed to            *)
(* handle_message: ok tells whether json.loads accepts it, data is the    *)
(* decoded object.                                                          *)

Frame(data) == [ok |-> TRUE, data |-> data]

RequestWillBeSentFrame(r, s, u, n) ==
    Frame([method |-> "Network.requestWillBeSent", sessionId |-> s,
           params |-> [requestId |-> r, request |-> [url |-> u, postData |-> n]]])

ResponseReceivedFrame(r, s, m) ==
    Frame([method |-> "Network.responseReceived", sessionId |-> s,
           params |-> [requestId |-> r, response |-> [mimeType |-> m, status |-> 200]]])

LoadingFinishedFrame(r, s) ==
    Frame([method |-> "Network.loadingFinished", sessionId |-> s,
           params |-> [requestId |-> r, encodedDataLength |-> 512]])

LoadingFailedFrame(r, s) ==
    Frame([method |-> "Network.loadingFailed", sessionId |-> s,
           params |-> [requestId |-> r, errorText |-> "net::ERR_FAILED"]])

\* session events come without a sessionId of their own: they belong to
\* the browser connection
AttachedFrame(s, info) ==
    Frame([method |-> "Target.attachedToTarget",
           params |-> [sessionId |-> s, targetInfo |-> info]])

DetachedFrame(s) ==
    Frame([method |-> "Target.detachedFromTarget", params |-> [sessionId |-> s]])

InfoChangedFrame(info) ==
    Frame([method |-> "Target.targetInfoChanged", params |-> [targetInfo |-> info]])

\* the reply to command id i that carries v (a result or an error)
ReplyFrame(i, v) == Frame(Update([id |-> i], v))

\* a frame with the members of an event and an id as well
EventFrameWithId(i) ==
    Frame(Update(RequestWillBeSentFrame("r1", "s1", UrlApi, 0).data, [id |-> i]))

\* a text frame json.loads rejects with JSONDecodeError
MalformedFrame == [ok |-> FALSE, data |-> EmptyMap]

\* a frame on which json.loads raises something else: UnicodeDecodeError
\* for a binary frame that is not UTF-8 (ValueError for a number over the
\* digit limit, RecursionError for deep nesting)
UndecodableFrame == [ok |-> FALSE, data |-> EmptyMap, raises |-> "UnicodeDecodeError"]

\* what json.loads(message) raises
Raised(message) ==
    IF message.ok THEN "nothing" ELSE Get(message, "raises", "JSONDecodeError")

----------------------------------------------------------------------------
(* History kept for the properties: what was received for each request id *)
(* (seen) and what write_request did with its records (out).              *)

NothingSeen == [starts |-> 0, passed |-> FALSE, early |-> FALSE,
                excl |-> FALSE, term |-> FALSE]

RECURSIVE SumOver(_, _)
SumOver(f, S) ==
    IF S = {} THEN 0
    ELSE LET x == CHOOSE y \in S : TRUE IN f[x] + SumOver(f, S \ {x})

TotalStarts == SumOver([r \in RequestIds |-> seen[r].starts], RequestIds)

\* starts: request-started events received for the id;
\* passed: the url of the latest one passed should_skip_url;
\* early:  an excluded MIME was reported before any request-started;
\* excl:   an excluded MIME was reported while the id was in the ledger;
\* term:   a terminal event was received after a request-started
Observe(message) ==
    IF \/ ~message.ok
       \/ "id" \in DOMAIN message.data
       \/ "requestId" \notin DOMAIN message.data.params
    THEN seen
    ELSE LET data   == message.data
             r      == data.params.requestId
             method == data.method
         IN  CASE method = "Network.requestWillBeSent" ->
                    [seen EXCEPT ![r].starts = @ + 1,
                                 ![r].passed = ~should_skip_url(data.params.request.url)]
               [] method = "Network.responseReceived" ->
                    IF ~should_skip_mime(data.params.response.mimeType)
                    THEN seen
                    ELSE IF r \in DOMAIN requests
                         THEN [seen EXCEPT ![r].excl = TRUE]
                         ELSE IF seen[r].starts = 0
                              THEN [seen EXCEPT ![r].early = TRUE]
                              ELSE seen
               [] OTHER ->
                    IF seen[r].starts = 0
                    THEN seen
                    ELSE [seen EXCEPT ![r].term = TRUE]

\* attached:  the sessions for which a page attach was handled and no
\*            detach since;
\* tab:       per request id, the tab of its session as the registry had
\*            it when the latest request-started that passed the url
\*            filter was handled (empty strings before any, and for a
\*            session the registry did not know);
\* moved:     the request ids that were in the ledger when the registry
\*            entry of their session was replaced (navigation) or
\*            removed (detach), since their latest request-started;
\* order:     the request ids of the terminal events (loading finished or
\*            failed) received for an id that was in the ledger, in the
\*            order of their receipt
NothingHandled ==
    [attached  |-> {},
     tab       |-> [r \in RequestIds |-> [id |-> "", url |-> << >>]],
     moved     |-> {},
     order     |-> << >>]

\* the ledger entries made by session s
StartedBy(s) == { r \in DOMAIN requests : requests[r].session_id = s }

\* the sessions whose registry entry a navigation to info replaces
Navigated(info) ==
    { sessions[i].key : i \in
        { i \in DOMAIN sessions :
            /\ sessions[i].value.targetId = info.targetId
            /\ sessions[i].value # info
            /\ \A j \in 1..(i - 1) : sessions[j].value.targetId # info.targetId } }

TabAtStart(s) ==
    IF \E i \in DOMAIN sessions : sessions[i].key = s
    THEN LET info == sessions[CHOOSE i \in DOMAIN sessions : sessions[i].key = s].value
         IN  [id  |-> IF "targetId" \in DOMAIN info THEN info.targetId ELSE "",
              url |-> IF "url" \in DOMAIN info THEN info.url ELSE << >>]
    ELSE [id |-> "", url |-> << >>]

Recorded(message) ==
    IF ~message.ok
    THEN hist
    ELSE IF "id" \in DOMAIN message.data \/ "method" \notin DOMAIN message.data
    THEN hist
    ELSE LET data   == message.data
             method == data.method
         IN  CASE method = "Target.attachedToTarget" ->
                    IF data.params.targetInfo.type = "page"
                    THEN [hist EXCEPT !.attached = @ \cup {data.params.sessionId}]
                    ELSE hist
               [] method = "Target.detachedFromTarget" ->
                    [hist EXCEPT !.attached = @ \ {data.params.sessionId},
                                 !.moved = @ \cup
                                     IF \E i \in DOMAIN sessions :
                                            sessions[i].key = data.params.sessionId
                                     THEN StartedBy(data.params.sessionId)
                                     ELSE {}]
               [] method = "Target.targetInfoChanged" ->
                    [hist EXCEPT !.moved = @ \cup
                        UNION { StartedBy(s) : s \in Navigated(data.params.targetInfo) }]
               [] method = "Network.requestWillBeSent" ->
                    IF should_skip_url(data.params.request.url)
                    THEN hist
                    ELSE [hist EXCEPT !.tab[data.params.requestId] =
                                          TabAtStart(data.sessionId),
                                      !.moved = @ \ {data.params.requestId}]
               [] method \in {"Network.loadingFinished", "Network.loadingFailed"} ->
                    IF data.params.requestId \in DOMAIN requests
                    THEN [hist EXCEPT !.order = Append(@, data.params.requestId)]
                    ELSE hist
               [] OTHER -> hist

----------------------------------------------------------------------------
(* The log directory a run can start with: nothing, or what earlier runs  *)
(* left: generations 1..k (k <= MAX_ROTATED_FILES), each rotated away      *)
(* when it was over the threshold, and an active file below, at or over   *)
(* the threshold.  Old content is one block per file.                      *)

OldBlock(bytes, n) == [rec |-> [id |-> "old"], bytes |-> bytes, n |-> n]

OldDir(k, activeBytes) ==
    [j \in 0..k |->
        << OldBlock(IF j = 0 THEN activeBytes ELSE MAX_LOG_SIZE + 1, k - j + 1) >>]

InitialActiveBytes == {MAX_LOG_SIZE - 1, MAX_LOG_SIZE, MAX_LOG_SIZE + 1}

----------------------------------------------------------------------------
(* The receive loop: frames are handled one at a time (connect, lines     *)
(* 410-418); the pause marker is toggled from outside.                    *)

\* nothing has ended yet: the first connect attempt is under way
NotEnded == [last |-> "none", ways |-> {}, run |-> "none"]

\* get_response_body has not returned
NotReturned == [kind |-> "not returned", text |-> << >>]

InitDaemon ==
    /\ requests = EmptyMap
    /\ sessions = << >>
    /\ msg_id = 0
    /\ pending_commands = {}
    /\ futures = EmptyMap
    /\ ws_sent = {}
    /\ conn = "open"
    /\ paused = FALSE
    /\ pc = "idle"
    /\ cur = EmptyMap
    /\ callers = EmptyMap
    /\ seen = [r \in RequestIds |-> NothingSeen]
    /\ hist = NothingHandled
    /\ out = [r \in RequestIds |-> [appended |-> 0, dropped |-> 0]]
    /\ running = TRUE
    /\ pid_file = TRUE
    /\ attempts = 1
    /\ replied = {}
    /\ grace = FALSE
    /\ ended = NotEnded

\* no body fetch has returned
NoFetch ==
    /\ fetch_result = EmptyMap
    /\ returned_body = NotReturned

\* mutant: frames are taken from the connection while a handler is suspended
LoopReady_while_suspended == pc \in {"idle", "get_response_body"} /\ conn = "open"

\* the loop is at ws.recv() and the connection delivers frames
LoopReady == pc = "idle" /\ conn = "open"

\* message = await ws.recv(); await self.handle_message(message).  The
\* loop is inside ws.recv() only after its test of self.running passed: a
\* frame is taken while the flag is set, or once more when the flag was
\* cleared during that wait (grace).
Recv(message, sent) ==
    /\ LoopReady
    /\ running \/ grace
    /\ handle_message(message, sent)
    /\ seen' = Observe(message)
    /\ hist' = Recorded(message)
    /\ grace' = FALSE
    /\ UNCHANGED <<paused, callers, running, pid_file, attempts, replied, ended, bodyVars>>

RecvRequestWillBeSent(urls, lens) ==
    /\ TotalStarts < MaxStarts
    /\ \E r \in RequestIds, s \in SessionIds, u \in urls, n \in lens :
           Recv(RequestWillBeSentFrame(r, s, u, n), TRUE)

RecvResponseReceived ==
    /\ LoopReady
    /\ \E r \in RequestIds, s \in SessionIds, m \in Mimes :
        Recv(ResponseReceivedFrame(r, s, m), TRUE)

RecvLoadingFinished ==
    /\ LoopReady
    /\ \E r \in RequestIds, s \in SessionIds, sent \in BOOLEAN :
           Recv(LoadingFinishedFrame(r, s), sent)

RecvLoadingFailed ==
    /\ LoopReady
    /\ \E r \in RequestIds, s \in SessionIds : Recv(LoadingFailedFrame(r, s), TRUE)

\* replies, also for ids that are not (or no longer) pending
RecvReply ==
    /\ LoopReady
    /\ \E i \in 1..(msg_id + 1), v \in ReplyResults : Recv(ReplyFrame(i, v), TRUE)

\* frames that carry an id and a method
RecvReplyWithMethod ==
    /\ LoopReady
    /\ \E i \in 1..(msg_id + 1) : Recv(EventFrameWithId(i), TRUE)

RecvMalformed ==
    /\ LoopReady
    /\ Recv(MalformedFrame, TRUE)

\* the body fetch of the suspended handle_loading_finished times out
TimeoutBody ==
    /\ pc = "get_response_body"
    /\ futures[cur.msg_id].state = "pending"
    /\ TimeoutCommand(cur.msg_id)
    /\ resume_loading_finished(NoBody)
    /\ UNCHANGED <<sessions, msg_id, ws_sent, conn, paused, callers, seen, hist, runVars, bodyVars>>

\* the Network.enable of the suspended handle_attached_to_target times
\* out: enable_network logs the error and returns
TimeoutEnable ==
    /\ pc = "enable_network"
    /\ futures[cur.msg_id].state = "pending"
    /\ TimeoutCommand(cur.msg_id)
    /\ resume_attached_to_target
    /\ UNCHANGED <<requests, msg_id, ws_sent, logVars, paused, callers,
                   seen, hist, runVars, bodyVars>>

\* chrome_log.py pause / unpause: touch or remove the marker
Pause ==
    /\ ~paused
    /\ paused' = TRUE
    /\ UNCHANGED <<requests, sessions, corrVars, logVars, taskVars, callers, seen, hist,
                   runVars, bodyVars>>

Unpause ==
    /\ paused
    /\ paused' = FALSE
    /\ UNCHANGED <<requests, sessions, corrVars, logVars, taskVars, callers, seen, hist,
                   runVars, bodyVars>>

----------------------------------------------------------------------------
(* Spec: the request ledger under every kind of frame, starting with an   *)
(* empty log directory.                                                    *)

Init ==
    /\ InitDaemon
    /\ NoFetch
    /\ files = EmptyMap
    /\ nlines = 0

Next ==
    \/ RecvRequestWillBeSent(Urls, {0})
    \/ RecvResponseReceived
    \/ RecvLoadingFinished
    \/ RecvLoadingFailed
    \/ RecvReply
    \/ RecvMalformed
    \/ TimeoutBody
    \/ Pause
    \/ Unpause

Spec == Init /\ [][Next]_vars

----------------------------------------------------------------------------
(* SpecRot: the writer and the rotation, starting from every log          *)
(* directory earlier runs can leave, with requests whose line is small or *)
(* larger than the threshold.                                              *)

InitRot ==
    /\ InitDaemon
    /\ NoFetch
    /\ \/ /\ files = EmptyMap
          /\ nlines = 0
       \/ \E k \in 0..MAX_ROTATED_FILES, b \in InitialActiveBytes :
             /\ files = OldDir(k, b)
             /\ nlines = k + 1

NextRot ==
    \/ RecvRequestWillBeSent({UrlApi}, PostDataLens)
    \/ RecvLoadingFinished
    \/ RecvLoadingFailed
    \/ TimeoutBody
    \/ Pause
    \/ Unpause

SpecRot == InitRot /\ [][NextRot]_vars

----------------------------------------------------------------------------
(* SpecCorr: the correlator used by several tasks at once.  Each call of  *)
(* send_command is a task of its own (callers), replies are fed to        *)
(* handle_message by the receive loop, and an awaiting call ends with the *)
(* result of its future or with the timeout.                               *)

Methods == {"Target.getTargets"}

\* send_command up to its await.  sent: ws.send succeeded; when it raises,
\* the exception leaves send_command with the future already registered.
SendCommand(method, sent) ==
    /\ msg_id < MaxCommands
    /\ sent => conn = "open"
    /\ RegisterCommand
    /\ IF sent
       THEN /\ ws_sent' = ws_sent \cup
                  {CommandMessage(msg_id + 1, method, EmptyMap, "")}
            /\ UNCHANGED conn
       ELSE /\ conn' = "closed"
            /\ UNCHANGED ws_sent
    /\ callers' = [i \in DOMAIN callers \cup {msg_id + 1} |->
                      IF i = msg_id + 1
                      THEN [state  |-> IF sent THEN "waiting" ELSE "send_failed",
                            result |-> EmptyMap,
                            seq    |-> 0]
                      ELSE callers[i]]
    /\ UNCHANGED <<requests, sessions, logVars, taskVars, paused, seen, hist, runVars, bodyVars>>

Returned == { i \in DOMAIN callers : callers[i].state = "returned" }

\* result = await asyncio.wait_for(future, timeout=10.0); return result
\* (seq numbers the returns in the order they happen)
WaiterReturns(id) ==
    /\ callers[id].state = "waiting"
    /\ futures[id].state = "done"
    /\ callers' = [callers EXCEPT ![id] = [state  |-> "returned",
                                           result |-> futures[id].result,
                                           seq    |-> Cardinality(Returned) + 1]]
    /\ UNCHANGED <<requests, sessions, corrVars, logVars, taskVars, paused, seen, hist,
                   runVars, bodyVars>>

\* except asyncio.TimeoutError: pending_commands.pop(msg_id, None); raise
WaiterTimesOut(id) ==
    /\ callers[id].state = "waiting"
    /\ futures[id].state = "pending"
    /\ TimeoutCommand(id)
    /\ callers' = [callers EXCEPT ![id].state = "timeout"]
    /\ UNCHANGED <<requests, sessions, msg_id, ws_sent, conn, logVars, taskVars,
                   paused, seen, hist, runVars, bodyVars>>

InitCorr ==
    /\ InitDaemon
    /\ NoFetch
    /\ files = EmptyMap
    /\ nlines = 0

CallSendCommand == \E method \in Methods, sent \in BOOLEAN : SendCommand(method, sent)

ReturnFromAwait ==
    /\ callers # EmptyMap
    /\ \E id \in DOMAIN callers : WaiterReturns(id)

TimeoutOfAwait ==
    /\ callers # EmptyMap
    /\ \E id \in DOMAIN callers : WaiterTimesOut(id)

NextCorr ==
    \/ CallSendCommand
    \/ RecvReply
    \/ RecvReplyWithMethod
    \/ ReturnFromAwait
    \/ TimeoutOfAwait

SpecCorr == InitCorr /\ [][NextCorr]_vars

----------------------------------------------------------------------------
(* run() and connect(): the supervision loop.  The daemon is one asyncio  *)
(* task; pc is the statement it is at:                                     *)
(*   "run"            entry of run(), before write_pid                     *)
(*   "while_running"  the test of `while self.running` in run()            *)
(*   "urlopen"        connect(): the HTTP discovery call                   *)
(*   "ws_connect"     connect(): websockets.connect                        *)
(*   "send"           connect(): at a send_command call of the setup       *)
(*   "await"          inside that send_command, awaiting the future        *)
(*   "idle"           the receive loop, inside ws.recv()                   *)
(*   "get_response_body"  a loading-finished handler awaiting the body     *)
(*   "enable_network" an attached-to-target handler awaiting Network.enable*)
(*   "after_connect"  run(): connect() is over, at `if self.running`       *)
(*   "sleep"          run(): asyncio.sleep(5)                              *)
(*   "stopped"        run() is over                                        *)
(* Futures are resolved by handle_message alone, and handle_message is    *)
(* called from the receive loop alone (line 413).                          *)

\* Calls of connect() in one run.
MaxAttempts == 3

SetupCommands == <<"Target.setAutoAttach", "Target.setDiscoverTargets", "Target.getTargets">>

\* locals of connect() at its first send_command
FirstSetup == [at |-> "setup", step |-> 1, targets |-> << >>, session |-> "", msg_id |-> 0]

IsPage(target) == Get(target, "type", "") = "page"

\* how connect() ended: appended to the history
Ended(way) == [ended EXCEPT !.last = way, !.ways = @ \cup {way}]

\* mutant: the handler of run() lets the timeout of a command through
run_catches_but_timeouts(way) == way # "timeout"

\* except Exception (line 446): every exception connect() raises is caught
run_catches(way) == TRUE

\* mutant: the finally block without remove_pid
remove_pid_skipped == pid_file

\* remove_pid: the PID file exists afterwards?
remove_pid == FALSE

\* finally: self.remove_pid(); run() is over
Finally(how) ==
    /\ pid_file' = remove_pid
    /\ pc' = "stopped"
    /\ ended' = [ended EXCEPT !.run = how]

\* connect() returns (discovery failed, line 370; the receive loop was left)
ConnectReturns(way) ==
    /\ pc' = "after_connect"
    /\ ended' = Ended(way)
    /\ UNCHANGED pid_file

\* an exception leaves connect(): `async with` closes the socket, and
\* run() logs it (line 447) or, if it does not catch it, unwinds
ConnectRaises(way) ==
    IF run_catches(way)
    THEN /\ pc' = "after_connect"
         /\ ended' = Ended(way)
         /\ UNCHANGED pid_file
    ELSE /\ pid_file' = remove_pid
         /\ pc' = "stopped"
         /\ ended' = [Ended(way) EXCEPT !.run = "raised"]

\* run(), lines 436-440: mkdir, write_pid, the signal handlers
RunStart ==
    /\ pc = "run"
    /\ pid_file' = TRUE
    /\ pc' = "while_running"
    /\ UNCHANGED <<requests, sessions, corrVars, logVars, cur, paused, callers, seen, hist,
                   running, attempts, replied, grace, ended, bodyVars>>

\* mutant: the supervision loop as `while True`
still_running_always == TRUE

\* the test of run()'s loop, line 443: while self.running
still_running == running

\* while self.running: ... await self.connect()
StartConnect ==
    /\ pc = "while_running"
    /\ still_running
    /\ attempts < MaxAttempts
    /\ attempts' = attempts + 1
    /\ pc' = "urlopen"
    /\ UNCHANGED <<requests, sessions, corrVars, logVars, cur, paused, callers, seen, hist,
                   running, pid_file, replied, grace, ended, bodyVars>>

\* the test of `while self.running` fails: finally, and run() returns
StopRunning ==
    /\ pc = "while_running"
    /\ ~still_running
    /\ Finally("returned")
    /\ UNCHANGED <<requests, sessions, corrVars, logVars, cur, paused, callers, seen, hist,
                   running, attempts, replied, grace, bodyVars>>

\* connect(), lines 363-370: the discovery call; on failure connect returns
Discovery ==
    /\ pc = "urlopen"
    /\ \E ok \in BOOLEAN :
          IF ok
          THEN pc' = "ws_connect" /\ UNCHANGED <<ended, pid_file>>
          ELSE ConnectReturns("discovery_failed")
    /\ UNCHANGED <<requests, sessions, corrVars, logVars, cur, paused, callers, seen, hist,
                   running, attempts, replied, grace, bodyVars>>

\* mutant: connect() starting the command ids over on a new connection
open_connection_resetting_ids(last_id) == 0

\* async with websockets.connect(...) as ws: self.ws = ws; the value of
\* msg_id on the new connection
open_connection(last_id) == last_id

\* connect(), line 374: the websocket connection is made or raises
WsConnect ==
    /\ pc = "ws_connect"
    /\ \E ok \in BOOLEAN :
          IF ok
          THEN /\ conn' = "open"
               /\ msg_id' = open_connection(msg_id)
               /\ pc' = "send"
               /\ cur' = FirstSetup
               /\ UNCHANGED <<ended, pid_file>>
          ELSE /\ ConnectRaises("connect_failed")
               /\ UNCHANGED <<conn, msg_id, cur>>
    /\ UNCHANGED <<requests, sessions, pending_commands, futures, ws_sent, logVars,
                   paused, callers, seen, hist, running, attempts, replied, grace, bodyVars>>

CommandMethod(c) ==
    CASE c.at = "setup"  -> SetupCommands[c.step]
      [] c.at = "attach" -> "Target.attachToTarget"
      [] c.at = "enable" -> "Network.enable"

CommandParams(c) ==
    CASE c.at = "attach" -> [targetId |-> Get(Head(c.targets), "targetId", "")]
      [] c.at = "enable" -> EnableParams
      [] OTHER -> EmptyMap

\* for target in targets (line 393), from `targets` on; after the last one
\* the receive loop begins
NextTarget(targets) ==
    IF targets = << >>
    THEN pc' = "idle" /\ cur' = EmptyMap
    ELSE pc' = "send" /\ cur' = [FirstSetup EXCEPT !.at = "attach", !.targets = targets]

\* connect() calls send_command (lines 378, 385, 390, 396, 403): the id is
\* taken and the future registered, then ws.send transmits or raises
\* ConnectionClosed.  Only the attach (line 404) and enable_network (line
\* 149) calls are inside a try.
ConnectSend ==
    /\ pc = "send"
    /\ RegisterCommand
    /\ \E sent \in BOOLEAN :
          /\ sent => conn = "open"
          /\ IF sent
             THEN /\ ws_sent' = ws_sent \cup
                        {CommandMessage(msg_id + 1, CommandMethod(cur), CommandParams(cur),
                                        cur.session)}
                  /\ pc' = "await"
                  /\ cur' = [cur EXCEPT !.msg_id = msg_id + 1]
                  /\ UNCHANGED <<conn, ended, pid_file>>
             ELSE /\ conn' = "closed"
                  /\ UNCHANGED ws_sent
                  /\ IF cur.at = "setup"
                     THEN ConnectRaises("send_failed") /\ UNCHANGED cur
                     ELSE NextTarget(Tail(cur.targets)) /\ UNCHANGED <<ended, pid_file>>
    /\ UNCHANGED <<requests, sessions, logVars, paused, callers, seen, hist,
                   running, attempts, replied, grace, bodyVars>>

\* connect() after send_command returned result
ResumeConnect(result) ==
    CASE cur.at = "setup" /\ cur.step < Len(SetupCommands) ->
            /\ pc' = "send"
            /\ cur' = [cur EXCEPT !.step = @ + 1]
            /\ UNCHANGED <<sessions, hist>>
      [] cur.at = "setup" /\ cur.step = Len(SetupCommands) ->
            /\ NextTarget(SelectSeq(
                   Get(Get(result, "result", EmptyMap), "targetInfos", << >>), IsPage))
            /\ UNCHANGED <<sessions, hist>>
      [] cur.at = "attach" ->
            LET session_id == Get(Get(result, "result", EmptyMap), "sessionId", "")
            IN  IF session_id # ""
                THEN /\ sessions' = Assign(sessions, session_id, Head(cur.targets))
                     /\ hist' = [hist EXCEPT !.attached = @ \cup {session_id}]
                     /\ pc' = "send"
                     /\ cur' = [cur EXCEPT !.at = "enable", !.session = session_id]
                ELSE /\ NextTarget(Tail(cur.targets))
                     /\ UNCHANGED <<sessions, hist>>
      [] cur.at = "enable" ->
            /\ NextTarget(Tail(cur.targets))
            /\ UNCHANGED <<sessions, hist>>

\* the await of send_command inside connect() ends: with the result when
\* the future is done, with TimeoutError after 10 s otherwise.  The
\* timeout of a setup command leaves connect(); that of attach or
\* enable_network is caught and logged.
AwaitEnds ==
    /\ pc = "await"
    /\ IF futures[cur.msg_id].state = "done"
       THEN /\ ResumeConnect(futures[cur.msg_id].result)
            /\ UNCHANGED <<pending_commands, futures, conn, ended, pid_file>>
       ELSE /\ TimeoutCommand(cur.msg_id)
            /\ IF cur.at = "setup"
               THEN /\ conn' = "closed"
                    /\ ConnectRaises("timeout")
                    /\ UNCHANGED <<cur, sessions, hist>>
               ELSE /\ NextTarget(Tail(cur.targets))
                    /\ UNCHANGED <<conn, sessions, hist, ended, pid_file>>
    /\ UNCHANGED <<requests, msg_id, ws_sent, logVars, paused, callers, seen,
                   running, attempts, replied, grace, bodyVars>>

\* run(), lines 449-451: sleep before the next attempt, if still running
AfterConnect ==
    /\ pc = "after_connect"
    /\ pc' = IF running THEN "sleep" ELSE "while_running"
    /\ UNCHANGED <<requests, sessions, corrVars, logVars, cur, paused, callers, seen, hist,
                   runVars, bodyVars>>

\* asyncio.sleep(5) returns
SleepEnds ==
    /\ pc = "sleep"
    /\ pc' = "while_running"
    /\ UNCHANGED <<requests, sessions, corrVars, logVars, cur, paused, callers, seen, hist,
                   runVars, bodyVars>>

\* the statements at which the task is suspended in an await
AwaitPoints == {"await", "idle", "get_response_body", "enable_network", "sleep"}

\* handle_signal: SIGTERM or SIGINT, once the handlers are installed
Signal ==
    /\ pc \notin {"run", "stopped"}
    /\ running
    /\ running' = FALSE
    /\ grace' = (pc = "idle")
    /\ UNCHANGED <<requests, sessions, corrVars, logVars, taskVars, paused, callers, seen, hist,
                   pid_file, attempts, replied, ended, bodyVars>>

\* the task is cancelled while suspended: asyncio.CancelledError is a
\* BaseException, `except Exception` (lines 149, 177, 404, 446) lets it
\* through, the socket is closed on the way out and finally runs
Cancelled ==
    /\ pc \in AwaitPoints
    /\ conn' = "closed"
    /\ Finally("cancelled")
    /\ grace' = FALSE
    /\ UNCHANGED <<requests, sessions, msg_id, pending_commands, futures, ws_sent,
                   logVars, cur, paused, callers, seen, hist, running, attempts, replied,
                   bodyVars>>

\* the browser sends its reply to the command the task is awaiting; the
\* frame waits in the socket until ws.recv() is called
BrowserReplies ==
    /\ pc \in {"await", "get_response_body", "enable_network"}
    /\ conn = "open"
    /\ cur.msg_id \notin replied
    /\ replied' = replied \cup {cur.msg_id}
    /\ UNCHANGED <<requests, sessions, corrVars, logVars, taskVars, paused, callers, seen, hist,
                   running, pid_file, attempts, grace, ended, bodyVars>>

InitRun ==
    /\ requests = EmptyMap
    /\ sessions = << >>
    /\ msg_id = 0
    /\ pending_commands = {}
    /\ futures = EmptyMap
    /\ ws_sent = {}
    /\ conn = "closed"
    /\ files = EmptyMap
    /\ nlines = 0
    /\ paused = FALSE
    /\ pc = "run"
    /\ cur = EmptyMap
    /\ callers = EmptyMap
    /\ seen = [r \in RequestIds |-> NothingSeen]
    /\ hist = NothingHandled
    /\ out = [r \in RequestIds |-> [appended |-> 0, dropped |-> 0]]
    /\ running = TRUE
    /\ pid_file = FALSE
    /\ attempts = 0
    /\ replied = {}
    /\ grace = FALSE
    /\ ended = NotEnded
    /\ fetch_result = EmptyMap
    /\ returned_body = NotReturned

NextRun ==
    \/ RunStart
    \/ StartConnect
    \/ StopRunning
    \/ Discovery
    \/ WsConnect
    \/ ConnectSend
    \/ AwaitEnds
    \/ AfterConnect
    \/ SleepEnds
    \/ Signal
    \/ Cancelled
    \/ BrowserReplies

SpecRun == InitRun /\ [][NextRun]_vars

----------------------------------------------------------------------------
(* SpecLoop: the receive loop under the supervision of run().  It starts  *)
(* where the receive loop is entered (line 410) on the first connection,  *)
(* with no page target attached.                                           *)

\* Requests started while the loop is under supervision.
MaxLoopStarts == 1

\* a Network.requestWillBeSent frame of a recorded URL arrives
LoopRequestWillBeSent ==
    /\ TotalStarts < MaxLoopStarts
    /\ RecvRequestWillBeSent({UrlApi}, {0})

\* while self.running (line 410) fails, at the polling tick or after the
\* handler of a frame returned: connect() returns
LoopExit ==
    /\ pc = "idle"
    /\ ~running
    /\ conn' = "closed"
    /\ grace' = FALSE
    /\ ConnectReturns("loop_exit")
    /\ UNCHANGED <<requests, sessions, msg_id, pending_commands, futures, ws_sent,
                   logVars, cur, paused, callers, seen, hist, running, attempts, replied,
                   bodyVars>>

\* the browser goes away or the socket drops
ConnectionLost ==
    /\ pc \in {"idle", "get_response_body", "enable_network"}
    /\ conn = "open"
    /\ conn' = "closed"
    /\ UNCHANGED <<requests, sessions, msg_id, pending_commands, futures, ws_sent,
                   logVars, taskVars, paused, callers, seen, hist, runVars, bodyVars>>

\* except websockets.ConnectionClosed: break (lines 416-418)
LoopBreak ==
    /\ pc = "idle"
    /\ conn = "closed"
    /\ running \/ grace
    /\ grace' = FALSE
    /\ ConnectReturns("socket_dropped")
    /\ UNCHANGED <<requests, sessions, corrVars, logVars, cur, paused, callers, seen, hist,
                   running, attempts, replied, bodyVars>>

\* a loading-failed frame whose write_request raises OSError (the log file
\* cannot be opened): the entry is already out of the ledger (line 287),
\* nothing is written, and the exception leaves handle_message, the
\* receive loop, which catches TimeoutError and ConnectionClosed only, and
\* connect()
WriteFails ==
    /\ LoopReady
    /\ running \/ grace
    /\ ~is_paused
    /\ \E r \in DOMAIN requests, s \in SessionIds :
          /\ requests' = complete_request(requests, r)
          /\ seen' = Observe(LoadingFailedFrame(r, s))
    /\ conn' = "closed"
    /\ grace' = FALSE
    /\ ConnectRaises("write_failed")
    /\ UNCHANGED <<sessions, msg_id, pending_commands, futures, ws_sent, logVars, cur,
                   paused, callers, hist, running, attempts, replied, bodyVars>>

\* a frame on which json.loads raises an exception other than
\* JSONDecodeError: line 327 does not catch it, and it leaves
\* handle_message, the receive loop, which catches TimeoutError and
\* ConnectionClosed only, and connect()
DecodeFails ==
    /\ LoopReady
    /\ running \/ grace
    /\ Raised(UndecodableFrame) \notin {"nothing", "JSONDecodeError"}
    /\ conn' = "closed"
    /\ grace' = FALSE
    /\ ConnectRaises("decode_failed")
    /\ UNCHANGED <<requests, sessions, msg_id, pending_commands, futures, ws_sent, logVars,
                   cur, paused, callers, seen, hist, running, attempts, replied, bodyVars>>

InitLoop ==
    /\ InitDaemon
    /\ NoFetch
    /\ files = EmptyMap
    /\ nlines = 0

NextLoop ==
    \/ LoopRequestWillBeSent
    \/ RecvLoadingFinished
    \/ RecvLoadingFailed
    \/ TimeoutBody
    \/ BrowserReplies
    \/ ConnectionLost
    \/ LoopBreak
    \/ LoopExit
    \/ WriteFails
    \/ DecodeFails
    \/ Signal
    \/ Cancelled
    \/ AfterConnect
    \/ SleepEnds
    \/ StartConnect
    \/ StopRunning
    \/ Discovery
    \/ WsConnect
    \/ ConnectSend
    \/ AwaitEnds

SpecLoop == InitLoop /\ [][NextLoop]_vars

\* the steps the daemon's task takes by itself, given time
TaskStep ==
    \/ TimeoutBody
    \/ LoopBreak
    \/ LoopExit
    \/ AfterConnect
    \/ SleepEnds
    \/ StartConnect
    \/ StopRunning
    \/ Discovery
    \/ WsConnect
    \/ ConnectSend
    \/ AwaitEnds

\* SpecLoop with time passing: timers expire, blocking calls return
FairSpecLoop == SpecLoop /\ WF_vars(TaskStep)

----------------------------------------------------------------------------
(* SpecSess: the session registry in the receive loop.  Tabs are attached *)
(* and detached, navigate, and make requests that end while their tab is  *)
(* in any of these states.                                                 *)

SessAttached ==
    /\ LoopReady
    /\ msg_id < MaxSessCommands
    /\ \E s \in TabSessions, info \in NewPageInfos \cup WorkerInfos, sent \in BOOLEAN :
           Recv(AttachedFrame(s, info), sent)

SessDetached ==
    /\ LoopReady
    /\ \E s \in TabSessions : Recv(DetachedFrame(s), TRUE)

SessInfoChanged ==
    /\ LoopReady
    /\ \E info \in PageInfos : Recv(InfoChangedFrame(info), TRUE)

SessRequestWillBeSent ==
    /\ TotalStarts < MaxSessStarts
    /\ \E r \in SessRequests, s \in TabSessions :
           Recv(RequestWillBeSentFrame(r, s, UrlApi, 0), TRUE)

\* the browser reports the end of a request in the session that made it
SessionOf(r) ==
    IF r \in DOMAIN requests THEN requests[r].session_id
    ELSE CHOOSE s \in TabSessions : TRUE

SessLoadingFinished ==
    /\ LoopReady
    /\ msg_id < MaxSessCommands
    /\ \E r \in SessRequests, sent \in BOOLEAN :
           Recv(LoadingFinishedFrame(r, SessionOf(r)), sent)

SessLoadingFailed ==
    /\ LoopReady
    /\ \E r \in SessRequests : Recv(LoadingFailedFrame(r, SessionOf(r)), TRUE)

InitSess ==
    /\ InitDaemon
    /\ NoFetch
    /\ files = EmptyMap
    /\ nlines = 0

NextSess ==
    \/ SessAttached
    \/ SessDetached
    \/ SessInfoChanged
    \/ SessRequestWillBeSent
    \/ SessLoadingFinished
    \/ SessLoadingFailed
    \/ TimeoutBody
    \/ TimeoutEnable

SpecSess == InitSess /\ [][NextSess]_vars

----------------------------------------------------------------------------
(* The body of a response (get_response_body, lines 159-180).  In this    *)
(* part a str is the sequence of its code points and a bytes object the   *)
(* sequence of its bytes (0..255), so that base64 and UTF-8 are computed  *)
(* on numbers.  Where a str is kept in the state it is written as Python  *)
(* would write a long one, unit * times + unit * times + ..., a sequence  *)
(* of blocks [unit, times]; the decoding works on the characters.         *)

\* the printable ASCII characters, from " " (32) to "~" (126); the grave
\* accent (96), which no literal of the daemon holds, is left empty
AsciiPrintable ==
    << " ", "!", "\"", "#", "$", "%", "&", "'", "(", ")", "*", "+", ",", "-", ".", "/",
       "0", "1", "2", "3", "4", "5", "6", "7", "8", "9", ":", ";", "<", "=", ">", "?",
       "@", "A", "B", "C", "D", "E", "F", "G", "H", "I", "J", "K", "L", "M", "N", "O",
       "P", "Q", "R", "S", "T", "U", "V", "W", "X", "Y", "Z", "[", "\\", "]", "^", "_",
       "", "a", "b", "c", "d", "e", "f", "g", "h", "i", "j", "k", "l", "m", "n", "o",
       "p", "q", "r", "s", "t", "u", "v", "w", "x", "y", "z", "{", "|", "}", "~" >>

\* the sequence f[1], ..., f[n]
Elements(f, n) == SubSeq(f, 1, n)

\* unit * times
Repeat(unit, times) ==
    Elements([i \in 1..(Len(unit) * times) |-> unit[((i - 1) % Len(unit)) + 1]],
             Len(unit) * times)

\* the str that a sequence of blocks writes
RECURSIVE TextOf(_)
TextOf(blocks) ==
    IF blocks = << >>
    THEN << >>
    ELSE Repeat(Head(blocks).unit, Head(blocks).times) \o TextOf(Tail(blocks))

\* len() of the str that a sequence of blocks writes
RECURSIVE LenOf(_)
LenOf(blocks) ==
    IF blocks = << >>
    THEN 0
    ELSE Len(Head(blocks).unit) * Head(blocks).times + LenOf(Tail(blocks))

\* a position in a string, as opposed to 0
IsPosition(i) == i > 0

\* a str written as blocks, one for each run of equal characters
BlocksOf(text) ==
    LET starts == SelectSeq([i \in 1..Len(text) |->
                                IF i = 1 \/ text[i] # text[i - 1] THEN i ELSE 0],
                            IsPosition)
        end(k) == IF k = Len(starts) THEN Len(text) + 1 ELSE starts[k + 1]
    IN  Elements([k \in 1..Len(starts) |->
                     [unit |-> <<text[starts[k]]>>, times |-> end(k) - starts[k]]],
                 Len(starts))

\* ord(c) for each character of a literal
OrdOf(c) == 31 + CHOOSE i \in 1..Len(AsciiPrintable) : AsciiPrintable[i] = c

Ord(literal) == Elements([i \in 1..Len(literal) |-> OrdOf(literal[i])], Len(literal))

\* str(n) for n >= 0
RECURSIVE Digits(_)
Digits(n) == IF n < 10 THEN <<48 + n>> ELSE Digits(n \div 10) \o <<48 + (n % 10)>>

\* what get_response_body returns: None or a str
None == [kind |-> "None", text |-> << >>]

Str(text) == [kind |-> "str", text |-> text]

\* the base64 alphabet: A-Z, a-z, 0-9, + and /
IsB64Data(c) == c \in 65..90 \/ c \in 97..122 \/ c \in 48..57 \/ c = 43 \/ c = 47

B64Value(c) ==
    CASE c \in 65..90  -> c - 65
      [] c \in 97..122 -> c - 71
      [] c \in 48..57  -> c + 4
      [] c = 43        -> 62
      [] c = 47        -> 63

\* "=" as a code point
IsPad(c) == c = 61

\* number of alphabet characters before position i
DataBefore(s, i) == Len(SelectSeq(SubSeq(s, 1, i - 1), IsB64Data))

\* binascii.a2b_base64 (not strict) stops at a "=" that completes the
\* padding of a group holding 2 or 3 characters: with 3 the first "="
\* does, with 2 the second one after the last alphabet character.  Other
\* "=" and characters outside the alphabet are skipped.
StopsAt(s, i) ==
    /\ IsPad(s[i])
    /\ LET n == DataBefore(s, i)
       IN  \/ n % 4 = 3
           \/ /\ n % 4 = 2
              /\ \E j \in 1..(i - 1) : IsPad(s[j]) /\ DataBefore(s, j) = n

\* base64.b64decode(s) for a str s: ok is FALSE where it raises
\* (binascii.Error for a group left with 1, 2 or 3 characters and no
\* padding, ValueError for a character that is not ASCII)
b64decode(s) ==
    LET stops == SelectSeq([i \in 1..Len(s) |-> IF StopsAt(s, i) THEN i ELSE 0], IsPosition)
        stop  == IF stops = << >> THEN Len(s) + 1 ELSE Head(stops)
        data  == SelectSeq(SubSeq(s, 1, stop - 1), IsB64Data)
        n     == Len(data)
        count == 3 * (n \div 4) + (CASE n % 4 = 2 -> 1 [] n % 4 = 3 -> 2 [] OTHER -> 0)
        v(i)  == B64Value(data[i])
        byte(k) ==
            LET g == 4 * ((k - 1) \div 3)
            IN  CASE (k - 1) % 3 = 0 -> v(g + 1) * 4 + (v(g + 2) \div 16)
                  [] (k - 1) % 3 = 1 -> (v(g + 2) % 16) * 16 + (v(g + 3) \div 4)
                  [] (k - 1) % 3 = 2 -> (v(g + 3) % 4) * 64 + v(g + 4)
    IN  IF \E i \in 1..Len(s) : s[i] > 127
        THEN [ok |-> FALSE, bytes |-> << >>]
        ELSE IF stops = << >> /\ n % 4 # 0
             THEN [ok |-> FALSE, bytes |-> << >>]
             ELSE [ok |-> TRUE, bytes |-> Elements([k \in 1..count |-> byte(k)], count)]

\* U+FFFD, what errors='replace' puts for bytes that are not UTF-8
ReplacementChar == 65533

\* bytes.decode('utf-8', errors='replace'): a well-formed sequence gives
\* its code point; an ill-formed one gives U+FFFD for its longest prefix
\* that could start a character, and decoding resumes after that prefix
RECURSIVE utf8_tail(_)
utf8_tail(b) ==
    IF b = << >>
    THEN << >>
    ELSE LET b1   == b[1]
             need == CASE b1 < 128        -> 1
                       [] b1 \in 194..223 -> 2
                       [] b1 \in 224..239 -> 3
                       [] b1 \in 240..244 -> 4
                       [] OTHER           -> 0
             lo2  == CASE b1 = 224 -> 160 [] b1 = 240 -> 144 [] OTHER -> 128
             hi2  == CASE b1 = 237 -> 159 [] b1 = 244 -> 143 [] OTHER -> 191
             good(i) == /\ i <= Len(b)
                        /\ IF i = 2 THEN b[i] \in lo2..hi2 ELSE b[i] \in 128..191
             k    == Cardinality({ m \in 2..need : \A i \in 2..m : good(i) })
             lead == CASE need = 2 -> b1 - 192 [] need = 3 -> b1 - 224
                       [] need = 4 -> b1 - 240 [] OTHER -> b1
             RECURSIVE point(_, _)
             point(acc, i) == IF i > need THEN acc ELSE point(acc * 64 + (b[i] - 128), i + 1)
         IN  IF need = 0
             THEN <<ReplacementChar>> \o utf8_tail(Tail(b))
             ELSE IF k = need - 1
                  THEN <<point(lead, 2)>> \o utf8_tail(SubSeq(b, need + 1, Len(b)))
                  ELSE <<ReplacementChar>> \o utf8_tail(SubSeq(b, k + 2, Len(b)))

\* pure ASCII decodes byte by byte to the same code points
utf8_decode(b) ==
    IF \A i \in 1..Len(b) : b[i] < 128
    THEN Elements([i \in 1..Len(b) |-> b[i]], Len(b))
    ELSE utf8_tail(b)

\* mutant: the cap applied from the threshold on
exceeds_cap_at_threshold(n) == n >= MAX_BODY_SIZE

\* len(decoded) > MAX_BODY_SIZE, len(body) > MAX_BODY_SIZE
exceeds_cap(n) == n > MAX_BODY_SIZE

\* get_response_body from the return of send_command on (lines 159-180):
\* result is the reply frame
body_of_result(result) ==
    IF "result" \notin DOMAIN result
    THEN None
    ELSE LET text      == Get(result.result, "body", << >>)
             is_base64 == Get(result.result, "base64Encoded", FALSE)
         IN  IF is_base64
             THEN LET decoded == b64decode(text)
                  IN  IF ~decoded.ok
                      THEN Str(Ord(<<"[","b","i","n","a","r","y"," ","c","o","n","t","e","n","t","]">>))
                      ELSE IF exceeds_cap(Len(decoded.bytes))
                           THEN Str(Ord(<<"[","t","r","u","n","c","a","t","e","d",":"," ">>)
                                        \o Digits(Len(decoded.bytes))
                                        \o Ord(<<" ","b","y","t","e","s","]">>))
                           ELSE Str(utf8_decode(decoded.bytes))
             ELSE IF exceeds_cap(Len(text))
                  THEN Str(SubSeq(text, 1, MAX_BODY_SIZE) \o <<10>>
                               \o Ord(<<"[","t","r","u","n","c","a","t","e","d",":"," ">>)
                               \o Digits(Len(text))
                               \o Ord(<<" ","b","y","t","e","s"," ","t","o","t","a","l","]">>))
                  ELSE Str(text)

----------------------------------------------------------------------------
(* SpecBody: get_response_body applied to the replies a body fetch can    *)
(* get.  Bodies are all strings up to MaxBodyLen over a few characters    *)
(* (alphabet characters, padding, a character outside the alphabet, one   *)
(* that is not ASCII), and long ones around the cap: the base64 text of n *)
(* bytes "A", and a plain text of MAX_BODY_SIZE + 1 characters.            *)

\* Length of the short bodies.
MaxBodyLen == 4

\* "Q", "w", "q", "/", "=", "!" and U+00E9
BodyChars == {81, 119, 113, 47, 61, 33, 233}

ShortBodies == UNION { [1..n -> BodyChars] : n \in 0..MaxBodyLen }

\* decoded sizes at the cap, just above it, and well above it
LongSizes == {MAX_BODY_SIZE, MAX_BODY_SIZE + 1, 200000}

\* base64.b64encode(b"A" * n): "QUFB" for each three bytes, then "QQ=="
\* for one byte left or "QUE=" for two
B64OfAs(n) ==
    <<[unit |-> Ord(<<"Q","U","F","B">>), times |-> n \div 3]>>
        \o (CASE n % 3 = 1 -> <<[unit |-> Ord(<<"Q","Q","=","=">>), times |-> 1]>>
              [] n % 3 = 2 -> <<[unit |-> Ord(<<"Q","U","E","=">>), times |-> 1]>>
              [] OTHER     -> << >>)

\* the reply to Network.getResponseBody
BodyReply(blocks, is_base64) ==
    [id |-> 1, result |-> [body |-> blocks, base64Encoded |-> is_base64]]

FetchResults ==
    { BodyReply(<<[unit |-> text, times |-> 1]>>, e) : text \in ShortBodies, e \in BOOLEAN }
        \cup { BodyReply(B64OfAs(n), TRUE) : n \in LongSizes }
        \cup { BodyReply(<<[unit |-> Ord(<<"a">>), times |-> MAX_BODY_SIZE + 1]>>, FALSE) }
        \cup { [id |-> 1, result |-> EmptyMap], [id |-> 1, error |-> "failed"] }

\* the reply as send_command returns it
Received(reply) ==
    IF "result" \in DOMAIN reply /\ "body" \in DOMAIN reply.result
    THEN [reply EXCEPT !.result.body = TextOf(@)]
    ELSE reply

\* what get_response_body returned
ReturnedBody(value) == [kind |-> value.kind, text |-> BlocksOf(value.text)]

InitBody ==
    /\ InitDaemon
    /\ files = EmptyMap
    /\ nlines = 0
    /\ fetch_result \in FetchResults
    /\ returned_body = NotReturned

\* get_response_body returns
GetResponseBodyReturns ==
    /\ returned_body = NotReturned
    /\ returned_body' = ReturnedBody(body_of_result(Received(fetch_result)))
    /\ UNCHANGED <<requests, sessions, corrVars, logVars, taskVars, paused, callers, seen, hist,
                   runVars, fetch_result>>

NextBody == GetResponseBodyReturns

SpecBody == InitBody /\ [][NextBody]_vars

----------------------------------------------------------------------------
(* Vocabulary of the properties *)

Range(f) == { f[i] : i \in DOMAIN f }

\* all lines of all files of a directory
AllLines(dir) == UNION { Range(dir[i]) : i \in DOMAIN dir }

\* the lines in the log files that hold a record of request id r
LinesOf(r) == { l \in AllLines(files) : l.rec.id = r }

\* the body-fetch commands transmitted for request id r
FetchesOf(r) ==
    { m \in ws_sent : m.method = "Network.getResponseBody" /\ m.params.requestId = r }

\* the handler of the latest frame has returned
Idle == pc = "idle"

UpperCase == <<"A","B","C","D","E","F","G","H","I","J","K","L","M",
               "N","O","P","Q","R","S","T","U","V","W","X","Y","Z">>
LowerCase == <<"a","b","c","d","e","f","g","h","i","j","k","l","m",
               "n","o","p","q","r","s","t","u","v","w","x","y","z">>

ToLowerChar(c) ==
    IF \E i \in 1..Len(UpperCase) : UpperCase[i] = c
    THEN LowerCase[CHOOSE i \in 1..Len(UpperCase) : UpperCase[i] = c]
    ELSE c

ToLower(s) == [i \in 1..Len(s) |-> ToLowerChar(s[i])]

GoogleAnalytics == SKIP_URL_PATTERNS[1]

\* the url names google-analytics.com in some letter case
MentionsGoogleAnalytics(url) == Contains(GoogleAnalytics, ToLower(url))

----------------------------------------------------------------------------
(* C1: for a well-formed event sequence of one request id (a single       *)
(* request-started, then response-received, loading-finished and          *)
(* loading-failed events in any number and order) at most one record with *)
(* that id is appended to the log.                                         *)
C1_AtMostOneRecordPerId ==
    \A r \in RequestIds :
        seen[r].starts <= 1 =>
            /\ out[r].appended <= 1
            /\ Cardinality(LinesOf(r)) <= 1
            /\ out[r].appended + out[r].dropped <= 1

\* a request whose record was appended, after which its id is out of the ledger
C1_Witness ==
    \E r \in RequestIds :
        /\ seen[r].starts = 1
        /\ seen[r].term
        /\ out[r].appended = 1
        /\ Cardinality(LinesOf(r)) = 1
        /\ r \notin DOMAIN requests
        /\ Idle

(* C2 (as amended): for a well-formed event sequence of one request id    *)
(* that has received a terminal event, handled to its end with the pause  *)
(* marker absent at the write, a record is appended if and only if the    *)
(* url passed the noise filter and no response-received that arrived      *)
(* while the id was in the ledger reported an excluded MIME.              *)
C2_RecordIffFiltersPassed ==
    \A r \in RequestIds :
        (seen[r].starts = 1 /\ seen[r].term /\ out[r].dropped = 0 /\ Idle) =>
            (out[r].appended = 1 <=> (seen[r].passed /\ ~seen[r].excl))

\* C2 as claimed: the MIME filter decides in every order of
\* response-received and request-started, so also when the excluded MIME
\* was reported before the request-started event
C2_AnyOrderOfResponseAndStart ==
    \A r \in RequestIds :
        (seen[r].starts = 1 /\ seen[r].term /\ out[r].dropped = 0 /\ Idle) =>
            (out[r].appended = 1 <=>
                (seen[r].passed /\ ~seen[r].excl /\ ~seen[r].early))

\* both outcomes in one state: one id persisted, the other cut by its MIME
C2_Witness ==
    \E r, q \in RequestIds :
        /\ seen[r].starts = 1 /\ seen[r].term /\ seen[r].passed /\ ~seen[r].excl
        /\ out[r].appended = 1
        /\ seen[q].starts = 1 /\ seen[q].term /\ seen[q].passed /\ seen[q].excl
        /\ out[q].appended = 0 /\ out[q].dropped = 0
        /\ Idle

(* C3: a request whose url contains google-analytics.com in any letter    *)
(* case never creates a ledger entry and never appears in a persisted     *)
(* record.                                                                 *)
C3_NoGoogleAnalyticsInAnyCase ==
    /\ \A r \in DOMAIN requests : ~MentionsGoogleAnalytics(requests[r].url)
    /\ \A l \in AllLines(files) :
           "url" \in DOMAIN l.rec => ~MentionsGoogleAnalytics(l.rec.url)

(* C4: once response-received has reported an excluded MIME for an id in  *)
(* the ledger, the entry is gone (from the very next state on), no        *)
(* body-fetch command is sent for the id, and no record of the id is      *)
(* persisted by later terminal events.                                     *)
C4_ExcludedMimeRemovesForGood ==
    \A r \in RequestIds :
        (seen[r].starts = 1 /\ seen[r].excl) =>
            /\ r \notin DOMAIN requests
            /\ FetchesOf(r) = {}
            /\ out[r].appended = 0
            /\ out[r].dropped = 0
            /\ LinesOf(r) = {}

\* an excluded id that later received a terminal event
C4_Witness ==
    \E r \in RequestIds :
        /\ seen[r].starts = 1 /\ seen[r].passed /\ seen[r].excl /\ seen[r].term
        /\ LinesOf(r) = {}
        /\ Idle

\* the frames that refer to request id r without starting it
FollowUpFrames(r) ==
    { ResponseReceivedFrame(r, s, m) : s \in SessionIds, m \in Mimes }
        \cup { LoadingFinishedFrame(r, s) : s \in SessionIds }
        \cup { LoadingFailedFrame(r, s) : s \in SessionIds }

(* C5: a response-received, loading-finished or loading-failed event for  *)
(* an id with no ledger entry is a no-op: nothing is written, no command  *)
(* is sent, and ledger, sessions, pending table and the position of the   *)
(* loop stay as they are.                                                  *)
C5_NoEntryIsNoOp ==
    [][ \/ UNCHANGED <<requests, sessions, corrVars, logVars, taskVars>>
        \/ \A r \in RequestIds \ DOMAIN requests :
              \A message \in FollowUpFrames(r) : ~Recv(message, TRUE) ]_vars

\* a terminal event was handled for an id that the url filter kept out
C5_Witness ==
    \E r \in RequestIds :
        /\ seen[r].starts = 1 /\ ~seen[r].passed /\ seen[r].term
        /\ r \notin DOMAIN requests
        /\ out[r].appended = 0
        /\ Idle

----------------------------------------------------------------------------
(* Vocabulary of the writer's properties *)

\* a step in which a line is written
WriteStep == nlines' = nlines + 1

ActiveOver     == Exists(files, 0) /\ st_size(files[0]) > MAX_LOG_SIZE
ActiveAtOrOver == Exists(files, 0) /\ st_size(files[0]) >= MAX_LOG_SIZE

Stamps(lines) == { l.n : l \in lines }

OldestLines(dir) ==
    IF Exists(dir, MAX_ROTATED_FILES) THEN Range(dir[MAX_ROTATED_FILES]) ELSE {}

\* the steps in which a terminal event for r is handled to its end: a
\* loading-failed frame, a loading-finished frame whose body fetch could
\* not be transmitted, or the timeout of the body fetch for r
TerminalHandled(r) ==
    \/ \E s \in SessionIds : Recv(LoadingFailedFrame(r, s), TRUE)
    \/ \E s \in SessionIds : Recv(LoadingFinishedFrame(r, s), FALSE)
    \/ (pc = "get_response_body" /\ cur.request_id = r /\ TimeoutBody)

\* the write appended its line to the active file and touched no other file
PlainAppend ==
    LET old == IF Exists(files, 0) THEN files[0] ELSE << >>
    IN  /\ DOMAIN files' = DOMAIN files \cup {0}
        /\ \A i \in DOMAIN files \ {0} : files'[i] = files[i]
        /\ Len(files'[0]) = Len(old) + 1
        /\ SubSeq(files'[0], 1, Len(old)) = old
        /\ files'[0][Len(old) + 1].n = nlines'
        /\ files'[0][Len(old) + 1].rec.id \in RequestIds

\* the write rotated first: generation 3 dropped, 2 and 1 moved up, the
\* active file became generation 1, the line is alone in a new active file
RotatedWrite ==
    /\ DOMAIN files' =
          {0, 1} \cup { i + 1 : i \in DOMAIN files \cap 1..(MAX_ROTATED_FILES - 1) }
    /\ files'[1] = files[0]
    /\ \A i \in DOMAIN files \cap 1..(MAX_ROTATED_FILES - 1) : files'[i + 1] = files[i]
    /\ Len(files'[0]) = 1
    /\ files'[0][1].n = nlines'
    /\ files'[0][1].rec.id \in RequestIds

----------------------------------------------------------------------------
(* C6: while the pause marker exists, a terminal event for an id in the   *)
(* ledger removes the entry but leaves every log file as it is (no line,  *)
(* no rotation); with the marker absent the same events append their      *)
(* record again.                                                            *)
C6_PausedDropsUnpausedAppends ==
    [][ \A r \in DOMAIN requests :
            TerminalHandled(r) =>
                /\ r \notin DOMAIN requests'
                /\ IF paused
                   THEN files' = files /\ nlines' = nlines
                   ELSE /\ WriteStep
                        /\ Exists(files', 0)
                        /\ files'[0][Len(files'[0])].rec.id = r
                        /\ files'[0][Len(files'[0])].n = nlines' ]_vars

\* paused, a record was dropped, and the active file that was due for
\* rotation is still in place
C6_Witness ==
    \E r \in RequestIds :
        /\ paused
        /\ out[r].dropped = 1
        /\ out[r].appended = 0
        /\ r \notin DOMAIN requests
        /\ ActiveOver
        /\ Idle

(* C7 (as amended): a write made with the pause marker absent while the   *)
(* active file is strictly above the 50 MB threshold rotates first:       *)
(* generation 3 is dropped, generations 2 and 1 move up by one, the       *)
(* active file becomes generation 1 and the record is alone in a fresh    *)
(* active file; a write to an active file at or below the threshold       *)
(* appends without rotating.                                               *)
C7_RotatesAboveThreshold ==
    [][ WriteStep => IF ActiveOver THEN RotatedWrite ELSE PlainAppend ]_vars

\* C7 as claimed: the write rotates also when the active file is exactly
\* at the threshold
C7_RotatesAtThreshold ==
    [][ (WriteStep /\ ActiveAtOrOver) => RotatedWrite ]_vars

\* after a rotating write into a full set of generations: the block that
\* started the run in generation 2 is generation 3, the former active
\* block is generation 1
C7_Witness ==
    /\ DOMAIN files = 0..MAX_ROTATED_FILES
    /\ Len(files[0]) = 1
    /\ files[0][1].rec.id \in RequestIds
    /\ files[1][1].rec.id = "old"
    /\ files[1][1].bytes > MAX_LOG_SIZE
    /\ files[MAX_ROTATED_FILES][1].n = 2
    /\ nlines = MAX_ROTATED_FILES + 2

(* C8: only the active file and generations 1..3 ever exist, a higher     *)
(* suffix holds older lines than a lower one, and the only lines that     *)
(* ever leave the directory are those of generation 3, in a rotating      *)
(* write.                                                                  *)
C8_GenerationsBoundedAndOrdered ==
    /\ [](/\ DOMAIN files \subseteq 0..MAX_ROTATED_FILES
          /\ \A i, j \in DOMAIN files :
                i < j => \A a \in Range(files[i]), b \in Range(files[j]) : b.n < a.n)
    /\ [][ Stamps(AllLines(files)) \ Stamps(AllLines(files')) =
              IF WriteStep /\ ActiveOver THEN Stamps(OldestLines(files)) ELSE {} ]_vars

\* two rotations in one run, starting from a full set of generations
C8_Witness ==
    /\ DOMAIN files = 0..MAX_ROTATED_FILES
    /\ files[0][1].rec.id \in RequestIds
    /\ files[1][1].rec.id \in RequestIds
    /\ files[2][1].rec.id = "old"
    /\ nlines = MAX_ROTATED_FILES + 3

(* C9: no line is duplicated in the directory, and a rotating write keeps *)
(* every line but those of generation 3: the former active file is        *)
(* generation 1 line for line, each former generation i < 3 is generation *)
(* i+1, and the fresh active file holds the new record and nothing else.  *)
C9_RotationKeepsRecords ==
    /\ [](\A i, j \in DOMAIN files :
             \A k \in DOMAIN files[i], m \in DOMAIN files[j] :
                 files[i][k].n = files[j][m].n => (i = j /\ k = m))
    /\ [][ (WriteStep /\ ActiveOver) =>
              /\ DOMAIN files' =
                    {0, 1} \cup { i + 1 : i \in DOMAIN files \cap 1..(MAX_ROTATED_FILES - 1) }
              /\ files'[1] = files[0]
              /\ \A i \in DOMAIN files \cap 1..(MAX_ROTATED_FILES - 1) :
                     files'[i + 1] = files[i]
              /\ Len(files'[0]) = 1
              /\ \E r \in DOMAIN requests :
                     /\ r \notin DOMAIN requests'
                     /\ files'[0][1].rec.id = r
                     /\ files'[0][1].rec.url = requests[r].url
                     /\ out'[r].appended = out[r].appended + 1
              /\ AllLines(files') =
                    (AllLines(files) \ OldestLines(files)) \cup {files'[0][1]} ]_vars

\* after a rotating write into a directory with generations 1 and 2: three
\* generations, all old blocks still there, the new record in the active file
C9_Witness ==
    /\ DOMAIN files = 0..MAX_ROTATED_FILES
    /\ Stamps(AllLines(files)) = 1..(MAX_ROTATED_FILES + 1)
    /\ files[0][1].rec.id \in RequestIds
    /\ \A i \in 1..MAX_ROTATED_FILES : files[i][1].rec.id = "old"

----------------------------------------------------------------------------
(* C10: with several commands outstanding, a reply resolves the waiter of *)
(* its own id with that reply and no other: the other futures, their      *)
(* table entries and their callers stay as they are, and every call that  *)
(* returns, whenever its reply arrives, returns the reply that carries    *)
(* its id.                                                                  *)
C10_ReplyResolvesOnlyItsWaiter ==
    /\ [](\A i \in DOMAIN callers :
             callers[i].state = "returned" => callers[i].result.id = i)
    /\ [][ \A j \in pending_commands, v \in ReplyResults :
              Recv(ReplyFrame(j, v), TRUE) =>
                  /\ futures'[j] = [state |-> "done", result |-> ReplyFrame(j, v).data]
                  /\ pending_commands' = pending_commands \ {j}
                  /\ \A i \in DOMAIN futures \ {j} : futures'[i] = futures[i]
                  /\ callers' = callers ]_vars

\* A (id 1) and B (id 2) were outstanding together, B returned first with
\* B's reply, A returned second with A's reply
C10_Witness ==
    /\ {1, 2} \subseteq DOMAIN callers
    /\ callers[2].state = "returned" /\ callers[2].seq = 1 /\ callers[2].result.id = 2
    /\ callers[1].state = "returned" /\ callers[1].seq = 2 /\ callers[1].result.id = 1

----------------------------------------------------------------------------
(* C11: a command whose future is still pending when its 10 s are over    *)
(* ends for its caller with the timeout, an outcome that carries no reply *)
(* and differs from a returned reply and from a failed send; in the very  *)
(* step of the timeout its id leaves the pending table, the other entries *)
(* stay, and the outcome is final: a reply that arrives later changes     *)
(* nothing for that caller.                                                *)
C11_TimeoutIsDistinctAndUnregisters ==
    /\ [](\A i \in DOMAIN callers :
             callers[i].state = "timeout" =>
                 /\ i \notin pending_commands
                 /\ futures[i].state = "cancelled"
                 /\ callers[i].result = EmptyMap)
    /\ [][ \A i \in DOMAIN callers :
              /\ (callers[i].state = "waiting" /\ callers'[i].state = "timeout") =>
                     /\ futures[i].state = "pending"
                     /\ i \in pending_commands
                     /\ pending_commands' = pending_commands \ {i}
              /\ callers[i].state = "timeout" => callers'[i] = callers[i] ]_vars

\* one command timed out and is out of the table while another one, sent
\* as well, is still waiting in it
C11_Witness ==
    \E i, j \in DOMAIN callers :
        /\ callers[i].state = "timeout"
        /\ i \notin pending_commands
        /\ \E m \in ws_sent : m.id = i
        /\ callers[j].state = "waiting"
        /\ j \in pending_commands

----------------------------------------------------------------------------
(* Vocabulary of the supervision properties *)

SentIds == { m.id : m \in ws_sent }

InConnect == {"urlopen", "ws_connect", "send", "await", "idle", "get_response_body",
              "enable_network"}

Ways == {"discovery_failed", "connect_failed", "send_failed", "timeout",
         "socket_dropped", "loop_exit", "write_failed", "decode_failed"}

\* the step is the cancellation of the task, not an outcome of connect()
CancelStep == ended'.run = "cancelled" /\ ended.run # "cancelled"

\* the timeout of command id happens in this step
TimeoutStep(id) == futures[id].state = "pending" /\ futures'[id].state = "cancelled"

(* C12: every command gets the id msg_id + 1, greater than every id       *)
(* assigned before on this or an earlier connection; the ids assigned so  *)
(* far are exactly 1..msg_id, the id is not in the pending table when it  *)
(* is registered, and the table holds ids that were assigned only.        *)
C12_IdsStrictlyIncrease ==
    /\ [](/\ DOMAIN futures = 1..msg_id
          /\ pending_commands \subseteq 1..msg_id
          /\ SentIds \subseteq 1..msg_id)
    /\ [][ msg_id' # msg_id =>
              /\ msg_id' = msg_id + 1
              /\ \A i \in DOMAIN futures \cup SentIds \cup pending_commands : i < msg_id'
              /\ pending_commands' = pending_commands \cup {msg_id'}
              /\ futures'[msg_id'].state = "pending"
              /\ SentIds' \subseteq SentIds \cup {msg_id'} ]_vars

\* the first setup command was transmitted on two connections, with
\* different ids
C12_Witness ==
    /\ attempts >= 2
    /\ \E m, n \in ws_sent :
          /\ m.method = SetupCommands[1] /\ n.method = SetupCommands[1]
          /\ m.id < n.id
          /\ n.id = msg_id

(* C13: a setup command of connect() whose reply the browser has sent     *)
(* gets that reply: its await ends with the future done, and connect()    *)
(* goes on to its next command or to the receive loop.                     *)
C13_SetupRepliesReachTheirWaiters ==
    [][ (pc = "await" /\ cur.at = "setup" /\ cur.msg_id \in replied
            /\ pc' # pc /\ ~CancelStep) =>
            /\ futures'[cur.msg_id].state = "done"
            /\ pc' \in {"send", "idle"} ]_vars

(* C14: when the browser's reply to the body fetch of a loading-finished  *)
(* handler has arrived before the 10 s are over, the handler's await ends *)
(* with the future done, and the record it writes holds a responseBody.   *)
C14_BodyReplyInTimeIsStored ==
    [][ (pc = "get_response_body" /\ cur.msg_id \in replied /\ pc' = "idle") =>
            /\ futures'[cur.msg_id].state = "done"
            /\ nlines' = nlines + 1 =>
                  "responseBody" \in DOMAIN files'[0][Len(files'[0])].rec ]_vars

(* C15: while the running flag stays set (and the task is not cancelled), *)
(* run() never stops; every way a connect attempt ends (it returns after  *)
(* a failed discovery call, a dropped socket or the end of the receive    *)
(* loop, or it raises) leads to the test of line 449, from there to the   *)
(* sleep, from the sleep to the loop test and from the loop test to the   *)
(* next attempt and nowhere else.                                          *)
C15_EveryEndOfConnectIsRetried ==
    [][ (running /\ running' /\ ~CancelStep) =>
            /\ pc' # "stopped"
            /\ (pc \in InConnect /\ pc' \notin InConnect) =>
                   /\ pc' = "after_connect"
                   /\ ended'.last \in Ways
                   /\ ended'.ways = ended.ways \cup {ended'.last}
            /\ (pc = "after_connect" /\ pc' # pc) => pc' = "sleep"
            /\ (pc = "sleep" /\ pc' # pc) => pc' = "while_running"
            /\ (pc = "while_running" /\ pc' # pc) =>
                   (pc' = "urlopen" /\ attempts' = attempts + 1) ]_vars

\* the third attempt is under way after one attempt ended with a dropped
\* socket and another with a failed discovery call
C15_Witness ==
    /\ running
    /\ attempts >= 3
    /\ pc = "urlopen"
    /\ {"socket_dropped", "discovery_failed"} \subseteq ended.ways

(* C16: once the running flag is cleared the daemon stops: no connect     *)
(* attempt is started any more, the receive loop takes at most the frame  *)
(* it was waiting for, and run() comes to its end; it ends by returning   *)
(* unless the task was cancelled.                                          *)
C16_SignalStopsTheDaemon ==
    /\ (~running ~> pc = "stopped")
    /\ [][ ~running => attempts' = attempts ]_vars
    /\ [][ (~running /\ ~grace /\ pc = "idle" /\ pc' # pc /\ ~CancelStep) =>
              (pc' = "after_connect" /\ ended'.last = "loop_exit") ]_vars
    /\ [](pc = "stopped" => (ended.run = "returned" => ~running))

\* the signal came while a frame's handler was awaiting the body; the
\* handler finished, the loop was left, and run() returned
C16_Witness ==
    /\ pc = "stopped"
    /\ ended.run = "returned"
    /\ ended.last = "loop_exit"
    /\ ~running
    /\ \E r \in RequestIds : out[r].appended = 1

(* C17: at every moment between write_pid and the end of run() the PID    *)
(* file exists, and once run() is over, by returning after a signal or by *)
(* an exception that unwinds through it, the PID file is gone.             *)
C17_PidFileRemovedOnEveryExit ==
    /\ pc = "stopped" => ~pid_file
    /\ pc \notin {"run", "stopped"} => pid_file
    /\ pc = "stopped" => ended.run \in {"returned", "cancelled"}

\* run() was left by an exception during a connect attempt
C17_Witness ==
    /\ pc = "stopped"
    /\ ended.run = "cancelled"
    /\ attempts >= 1
    /\ msg_id >= 1
    /\ ~pid_file

(* C18: after a filesystem failure in write_request the daemon neither    *)
(* waits for a retry nor starts another connect attempt.                   *)
C18_FilesystemFailureIsFatal ==
    "write_failed" \in ended.ways =>
        pc \notin {"sleep", "urlopen", "ws_connect", "send", "await", "idle"}

(* C19: the timeout of a command, whichever it is, removes that command's *)
(* waiter and nothing else: the connection stays open, sessions and the   *)
(* other futures stay as they are, and the task goes on inside connect(). *)
C19_TimeoutCancelsOnlyItsWaiter ==
    [][ \A id \in pending_commands :
            TimeoutStep(id) =>
                /\ conn = "open" => conn' = "open"
                /\ sessions' = sessions
                /\ pending_commands' = pending_commands \ {id}
                /\ \A j \in DOMAIN futures \ {id} : futures'[j] = futures[j]
                /\ pc' \in {"send", "idle"} ]_vars

----------------------------------------------------------------------------
(* C20: for a base64 body of n bytes "A" get_response_body returns, when  *)
(* n is above the cap of 102400 (102401, 200000), the placeholder         *)
(* "[truncated: n bytes]": it holds the word "truncated" and the count n  *)
(* in decimal and none of the content; when n is the cap itself it        *)
(* returns the n characters "A".  Short base64 bodies come back as their  *)
(* text, and whatever a base64 body is, what is returned for it is never  *)
(* longer than the cap.                                                     *)
C20_OversizeBase64IsPlaceholder ==
    LET returned(blocks) ==
            /\ fetch_result = BodyReply(blocks, TRUE)
            /\ returned_body # NotReturned
        short(literal) == <<[unit |-> Ord(literal), times |-> 1]>>
        placeholder(digits) ==
            Ord(<<"[","t","r","u","n","c","a","t","e","d",":"," ">>) \o Ord(digits)
                \o Ord(<<" ","b","y","t","e","s","]">>)
    IN  /\ returned(B64OfAs(200000)) =>
               /\ returned_body.kind = "str"
               /\ TextOf(returned_body.text) = placeholder(<<"2","0","0","0","0","0">>)
               /\ Contains(Ord(<<"t","r","u","n","c","a","t","e","d">>),
                           TextOf(returned_body.text))
               /\ Contains(Ord(<<"2","0","0","0","0","0">>), TextOf(returned_body.text))
               /\ ~Contains(Ord(<<"A","A">>), TextOf(returned_body.text))
        /\ returned(B64OfAs(MAX_BODY_SIZE + 1)) =>
               /\ returned_body.kind = "str"
               /\ TextOf(returned_body.text) = placeholder(<<"1","0","2","4","0","1">>)
        /\ returned(B64OfAs(MAX_BODY_SIZE)) =>
               returned_body = [kind |-> "str",
                                text |-> <<[unit |-> Ord(<<"A">>), times |-> MAX_BODY_SIZE]>>]
        /\ returned(short(<<"Q","w","=","=">>)) =>
               TextOf(returned_body.text) = Ord(<<"C">>)
        /\ returned(short(<<"Q","Q","=","=">>)) =>
               TextOf(returned_body.text) = Ord(<<"A">>)
        /\ returned(short(<<"w","q","Q","=">>)) =>
               TextOf(returned_body.text) = <<164>>
        /\ returned(short(<<"/","/","/","/">>)) =>
               TextOf(returned_body.text)
                   = <<ReplacementChar, ReplacementChar, ReplacementChar>>
        /\ (returned_body # NotReturned /\ "result" \in DOMAIN fetch_result
                /\ Get(fetch_result.result, "base64Encoded", FALSE)) =>
               LenOf(returned_body.text) <= MAX_BODY_SIZE

\* the body of 200000 bytes came back as its placeholder
C20_Witness ==
    /\ fetch_result = BodyReply(B64OfAs(200000), TRUE)
    /\ returned_body.kind = "str"
    /\ Contains(Ord(<<"2","0","0","0","0","0">>), TextOf(returned_body.text))

----------------------------------------------------------------------------
(* The session registry *)

\* Network.enable went out for session s
EnableSentFor(s) ==
    \E m \in ws_sent : m.method = "Network.enable" /\ m.sessionId = s

\* C21: a session id is in the registry exactly when a page-type attach
\* for it was handled and no detach for it since; the registry holds one
\* entry per session id; an attach event for a target that is not a page
\* adds no entry and sends no command.
C21_RegistryIsPageAttachesNotDetached ==
    /\ [](/\ Keys(sessions) = hist.attached
          /\ \A i, j \in DOMAIN sessions : sessions[i].key = sessions[j].key => i = j)
    /\ [][\/ UNCHANGED <<sessions, corrVars>>
           \/ ~\E s \in TabSessions, info \in WorkerInfos, sent \in BOOLEAN :
                  Recv(AttachedFrame(s, info), sent)]_vars

\* s1 is registered; s2 was attached as a page (its Network.enable went
\* out) and detached afterwards
C21_Witness ==
    /\ Keys(sessions) = {"s1"}
    /\ EnableSentFor("s2")

\* the places of the registry whose metadata carries the target id of info
SameTarget(info) ==
    { i \in DOMAIN sessions : sessions[i].value.targetId = info.targetId }

NewLine == files'[0][Len(files'[0])]

\* C23: the tab of a persisted record is what the registry held for the
\* request's session when its request-started event was handled (empty
\* strings for a session the registry did not know), whatever happened to
\* that session between the request-started event and the finalize.
C23_TabIsSnapshotAtStart ==
    [][\A r \in RequestIds :
          out'[r].appended = out[r].appended + 1 =>
              /\ 0 \in DOMAIN files'
              /\ Len(files'[0]) > 0
              /\ NewLine.rec.id = r
              /\ NewLine.rec.tab = hist.tab[r]]_vars

\* a record was persisted whose session had navigated or was detached
\* while the request was in the ledger: it carries the tab of the start
C23_Witness ==
    \E r \in hist.moved :
        /\ r \notin DOMAIN requests
        /\ out[r].appended = 1
        /\ \E l \in LinesOf(r) : l.rec.tab = [id |-> "t1", url |-> UrlHome]
        /\ \A i \in DOMAIN sessions : sessions[i].value.url # UrlHome

\* a Network.enable command ended in a timeout
SomeEnableTimedOut ==
    \E m \in ws_sent : m.method = "Network.enable" /\ futures[m.id].state = "cancelled"

\* C24: Network.enable is best effort.  When it times out the session
\* stays registered, the connection is left as it is and the receive loop
\* goes on; when its transmission fails the session stays registered and
\* the handler returns; and a page attach handled after such a failure
\* gets a Network.enable of its own, under a new id.
C24_EnableIsBestEffort ==
    [][/\ (pc = "enable_network" /\ TimeoutEnable) =>
             /\ conn = "open" /\ conn' = "open"
             /\ cur.session_id \in Keys(sessions')
             /\ sessions' = sessions
             /\ pc' = "idle"
             /\ ended' = ended
       /\ \A s \in TabSessions, info \in NewPageInfos :
             (s \in hist'.attached /\ Recv(AttachedFrame(s, info), FALSE)) =>
                 /\ s \in Keys(sessions')
                 /\ pc' = "idle"
                 /\ ended' = ended
       /\ \A s \in TabSessions, info \in NewPageInfos :
             (s \in hist'.attached /\ SomeEnableTimedOut
                  /\ Recv(AttachedFrame(s, info), TRUE)) =>
                 /\ s \in Keys(sessions')
                 /\ msg_id' = msg_id + 1
                 /\ msg_id' \in pending_commands'
                 /\ ws_sent' = ws_sent \cup
                        {CommandMessage(msg_id', "Network.enable", EnableParams, s)}]_vars

\* the Network.enable of s1 timed out; s1 is still registered, the
\* connection is open, and s2, attached afterwards, got its own command
C24_Witness ==
    /\ conn = "open"
    /\ "s1" \in Keys(sessions)
    /\ \E m1, m2 \in ws_sent :
          /\ m1.method = "Network.enable" /\ m1.sessionId = "s1"
          /\ futures[m1.id].state = "cancelled"
          /\ m2.method = "Network.enable" /\ m2.sessionId = "s2"
          /\ m2.id > m1.id

----------------------------------------------------------------------------
(* Finalizing *)

\* the records of id r handed to write_request so far
Handed(r) == out[r].appended + out[r].dropped

\* this step removes r from the ledger and hands one record of r, and no
\* other, to the writer
FinalizedOnce(r) ==
    /\ r \in DOMAIN requests
    /\ r \notin DOMAIN requests'
    /\ out' = [out EXCEPT ![r] = out'[r]]
    /\ out'[r].appended + out'[r].dropped = Handed(r) + 1

\* C25: the body fetch never blocks the finalize.  A loading-finished
\* event for an id in the ledger whose body fetch cannot be transmitted
\* finalizes at once; one whose body fetch was transmitted waits with the
\* entry in the ledger and finalizes when the await ends, whether or not
\* the browser has answered; the await always ends.  Each finalize removes
\* the entry and hands exactly one record to the writer, without
\* responseBody when no body was obtained.
C25_BodyFetchNeverBlocksFinalize ==
    /\ [][\A r \in RequestIds :
            /\ (r \in DOMAIN requests /\ LoopReady
                   /\ \E s \in SessionIds : Recv(LoadingFinishedFrame(r, s), FALSE)) =>
                  /\ FinalizedOnce(r)
                  /\ WriteStep => "responseBody" \notin DOMAIN NewLine.rec
            /\ (pc = "get_response_body" /\ cur.request_id = r /\ ~CancelStep) =>
                  IF pc' = pc
                  THEN UNCHANGED <<requests, out>>
                  ELSE /\ FinalizedOnce(r)
                       /\ pc' = "idle"
                       /\ WriteStep => "responseBody" \notin DOMAIN NewLine.rec]_vars
    /\ (pc = "get_response_body") ~> (pc # "get_response_body")

\* the browser answered the body fetch of r, the await ended in the
\* timeout all the same, and the record of r was written without a body
C25_Witness ==
    \E r \in RequestIds :
        /\ r \notin DOMAIN requests
        /\ out[r].appended = 1
        /\ \A l \in LinesOf(r) : "responseBody" \notin DOMAIN l.rec
        /\ \E m \in FetchesOf(r) :
              /\ m.id \in replied
              /\ futures[m.id].state = "cancelled"

\* C26: a loading-failed event for an id in the ledger removes the entry
\* and hands one record to the writer, which appends it unless the pause
\* marker is set; the record carries the event's error text and no
\* responseBody; no command is registered or sent.
C26_LoadingFailedPersistsWithError ==
    [][\A r \in RequestIds :
          (r \in DOMAIN requests /\ LoopReady /\ seen'[r].term
              /\ \E s \in SessionIds : Recv(LoadingFailedFrame(r, s), TRUE)) =>
              /\ FinalizedOnce(r)
              /\ UNCHANGED <<corrVars, taskVars>>
              /\ FetchesOf(r)' = FetchesOf(r)
              /\ out'[r].appended = out[r].appended + (IF paused THEN 0 ELSE 1)
              /\ ~paused =>
                    /\ WriteStep
                    /\ NewLine.rec.id = r
                    /\ "error" \in DOMAIN NewLine.rec
                    /\ NewLine.rec.error = LoadingFailedFrame(r, "s1").data.params.errorText
                    /\ "responseBody" \notin DOMAIN NewLine.rec
                    /\ "session_id" \notin DOMAIN NewLine.rec]_vars

\* a failed request is in the log with its error, after a response was
\* received for it, and no body fetch was ever sent for it
C26_Witness ==
    \E r \in RequestIds :
        /\ r \notin DOMAIN requests
        /\ FetchesOf(r) = {}
        /\ \E l \in LinesOf(r) :
              /\ "error" \in DOMAIN l.rec
              /\ "mime" \in DOMAIN l.rec
              /\ "responseBody" \notin DOMAIN l.rec

----------------------------------------------------------------------------
(* Frames that carry an id *)

\* the frames with an id the browser can send for id i
FramesWithId(i) == { ReplyFrame(i, v) : v \in ReplyResults } \cup {EventFrameWithId(i)}

\* C27: a frame that carries an id is handled as a reply and as nothing
\* else, also when it has the members of an event: the ledger, the
\* registry, the log, the id counter and the frames sent are unchanged; it
\* resolves the waiter pending under its id and touches no other; with no
\* waiter pending under its id (an id never assigned, a reply repeated, a
\* reply after the timeout) nothing changes at all.
C27_FrameWithIdIsReplyOnly ==
    [][\A i \in 1..(msg_id + 1) : \A f \in FramesWithId(i) :
          (LoopReady /\ Recv(f, TRUE)) =>
              /\ UNCHANGED <<requests, sessions, logVars, msg_id, ws_sent, conn, taskVars>>
              /\ \A j \in DOMAIN futures \ {i} : futures'[j] = futures[j]
              /\ pending_commands' = pending_commands \ {i}
              /\ i \notin pending_commands => UNCHANGED <<pending_commands, futures>>]_vars

\* a frame with an id and the members of a request-started event resolved
\* its waiter, while another waiter is still pending and a third one has
\* timed out; the ledger is empty
C27_Witness ==
    /\ requests = EmptyMap
    /\ \E i, j, k \in DOMAIN futures :
          /\ futures[i].state = "done"
          /\ "method" \in DOMAIN futures[i].result
          /\ futures[j].state = "pending" /\ j \in pending_commands
          /\ futures[k].state = "cancelled"

----------------------------------------------------------------------------
(* The pause marker, toggled from outside at any time *)

\* C28: the marker is read at each write.  Whenever a finalized record is
\* handed to the writer, whatever the marker was at any earlier moment
\* (when the request started, when its loading-finished event arrived and
\* the body fetch began, at earlier writes), the record is appended if
\* the marker is absent in that step and dropped, leaving the files as
\* they are, if it is present; no other step writes to the log, so the
\* log holds as many lines for an id as records of it were appended and a
\* dropped record never appears later.
C28_MarkerReadAtEachWrite ==
    /\ [][/\ \A r \in RequestIds :
              Handed(r)' = Handed(r) + 1 =>
                  IF paused
                  THEN /\ UNCHANGED <<files, nlines>>
                       /\ out'[r].dropped = out[r].dropped + 1
                  ELSE /\ WriteStep
                       /\ NewLine.rec.id = r
                       /\ out'[r].appended = out[r].appended + 1
          /\ (\A r \in RequestIds : Handed(r)' = Handed(r)) => UNCHANGED <<files, nlines>>
          /\ paused' # paused => UNCHANGED <<requests, files, nlines, out, pc>>]_vars
    /\ [](\A r \in RequestIds : Cardinality(LinesOf(r)) = out[r].appended)

\* the record of one request was dropped at the end of its body fetch and
\* is not in the log now that the marker is gone again, and the record of
\* another one was appended
C28_Witness ==
    \E r1, r2 \in RequestIds :
        /\ ~paused
        /\ out[r1].dropped = 1 /\ out[r1].appended = 0
        /\ FetchesOf(r1) # {}
        /\ LinesOf(r1) = {}
        /\ out[r2].appended = 1
        /\ Cardinality(LinesOf(r2)) = 1
        /\ requests = EmptyMap
        /\ Idle

----------------------------------------------------------------------------
(* Frames that cannot be decoded *)

\* C29: a frame that cannot be decoded as JSON is dropped silently: the
\* registry, the ledger, the pending table and the log are unchanged, no
\* exception leaves the handler, and the receive loop goes on with the
\* next frame on the same connection.
C29_UndecodableFrameIsDropped ==
    [][ (LoopReady /\ (RecvMalformed \/ DecodeFails)) =>
            /\ UNCHANGED <<sessions, requests, pending_commands, futures, logVars>>
            /\ conn' = "open"
            /\ pc' = "idle"
            /\ ended' = ended ]_vars

----------------------------------------------------------------------------
(* The MIME of ledger entries *)

\* the MIME type begins with one of the excluded prefixes
ExcludedMime(mime) ==
    \E i \in DOMAIN SKIP_MIME_TYPES :
        /\ Len(mime) >= Len(SKIP_MIME_TYPES[i])
        /\ \A k \in DOMAIN SKIP_MIME_TYPES[i] : mime[k] = SKIP_MIME_TYPES[i][k]

\* C30: no ledger entry ever carries an excluded MIME type, and every
\* loading-finished event that finds its id in the ledger issues a body
\* fetch: it takes a new command id, registers it, and transmits
\* Network.getResponseBody for that request unless the transmission fails.
C30_LedgerHoldsNoExcludedMime ==
    /\ [](\A r \in DOMAIN requests :
             "mime" \in DOMAIN requests[r] => ~ExcludedMime(requests[r].mime))
    /\ [][\A r \in RequestIds :
            (r \in DOMAIN requests /\ LoopReady /\ seen'[r].term
                /\ \E s \in SessionIds, sent \in BOOLEAN :
                       Recv(LoadingFinishedFrame(r, s), sent)) =>
                /\ msg_id' = msg_id + 1
                /\ msg_id' \in DOMAIN futures'
                /\ \/ /\ pc' = "get_response_body"
                      /\ \E m \in FetchesOf(r)' : m.id = msg_id'
                   \/ /\ conn' = "closed"
                      /\ r \notin DOMAIN requests']_vars

\* the body fetch of a request whose response was text/html is under way,
\* and another request left the ledger when its excluded MIME was reported
C30_Witness ==
    \E r1, r2 \in RequestIds :
        /\ r1 \in DOMAIN requests
        /\ "mime" \in DOMAIN requests[r1] /\ requests[r1].mime = MimeHtml
        /\ pc = "get_response_body" /\ cur.request_id = r1
        /\ FetchesOf(r1) # {}
        /\ seen[r2].excl
        /\ r2 \notin DOMAIN requests

----------------------------------------------------------------------------
(* Order of handling *)

\* the ids of the records in the log with stamp k or later, oldest first
RECURSIVE IdsFrom(_)
IdsFrom(k) ==
    IF k > nlines THEN << >>
    ELSE (IF \E l \in AllLines(files) : l.n = k
          THEN << (CHOOSE l \in AllLines(files) : l.n = k).rec.id >>
          ELSE << >>) \o IdsFrom(k + 1)

\* a is b with some elements left out
RECURSIVE IsSubseq(_, _)
IsSubseq(a, b) ==
    IF a = << >> THEN TRUE
    ELSE IF b = << >> THEN FALSE
    ELSE IF Head(a) = Head(b) THEN IsSubseq(Tail(a), Tail(b))
    ELSE IsSubseq(a, Tail(b))

\* C31: frames are handled one at a time.  While a loading-finished
\* handler waits for its body fetch no event is dispatched: no event is
\* counted, the registry is unchanged and the ledger changes only by the
\* removal of the waiting handler's entry.  Every line appended holds the
\* record of the terminal event received last, so the records in the log
\* are in the order in which their terminal events were received.
C31_OneFrameAtATime ==
    /\ [](IsSubseq(IdsFrom(1), hist.order))
    /\ [][/\ (pc = "get_response_body") =>
                (/\ UNCHANGED <<seen, hist, sessions>>
                 /\ requests' \in {requests, complete_request(requests, cur.request_id)}
                 /\ pc' \in {"get_response_body", "idle"})
          /\ WriteStep =>
                (/\ hist'.order # << >>
                 /\ NewLine.rec.id = hist'.order[Len(hist'.order)])]_vars

\* two requests were finished one after the other, each after waiting for
\* its body fetch, and their records are in the log in that order
C31_Witness ==
    \E r1, r2 \in RequestIds :
        /\ r1 # r2
        /\ hist.order = <<r1, r2>>
        /\ IdsFrom(1) = <<r1, r2>>
        /\ FetchesOf(r1) # {} /\ FetchesOf(r2) # {}
        /\ pc = "idle"

----------------------------------------------------------------------------
(* The pending table after send_command *)

\* the calls of send_command that have finished: with the reply, with the
\* timeout, or with the exception of ws.send
Finished == { i \in DOMAIN callers :
                callers[i].state \in {"returned", "timeout", "send_failed"} }

\* C32: once send_command has finished for a command (reply, timeout or
\* failed transmission) the pending table holds no entry under the
\* command's id, and a future that was resolved or cancelled is never
\* resolved again.
C32_FinishedCommandLeavesNoEntry ==
    /\ [](\A i \in Finished : i \notin pending_commands)
    /\ [][\A i \in DOMAIN futures :
              futures[i].state # "pending" => futures'[i] = futures[i]]_vars

----------------------------------------------------------------------------
(* Reconnection *)

\* this step is websockets.connect succeeding in connect()
Connected == pc = "ws_connect" /\ pc' = "send" /\ conn' = "open"

\* C33: when a connect attempt succeeds after a connection was lost, the
\* new connection starts with nothing of the previous one: the session
\* registry, the ledger and the pending table are empty, so that whatever
\* they hold later was put there over the current connection.
C33_ReconnectStartsClean ==
    [][(Connected /\ "socket_dropped" \in ended.ways) =>
          /\ sessions' = << >>
          /\ requests' = EmptyMap
          /\ pending_commands' = {}]_vars

----------------------------------------------------------------------------
(* The life of a ledger entry *)

\* the members of an entry that come from its request-started event
StartMembers == {"id", "session_id", "tab", "url", "requestBody"}

\* C34: an entry leaves the ledger only in a step that hands its record to
\* the writer (terminal event) or that handles an excluded MIME; as long
\* as it stays, what its request-started event put into it stays and no
\* member collected since is lost, also when another request-started
\* event arrives for the same id.
C34_EntryLeavesOnlyByTerminalOrExclusion ==
    [][\A r \in DOMAIN requests :
          IF r \in DOMAIN requests'
          THEN /\ DOMAIN requests[r] \subseteq DOMAIN requests'[r]
               /\ \A k \in StartMembers \cap DOMAIN requests[r] :
                      requests'[r][k] = requests[r][k]
          ELSE \/ Handed(r)' = Handed(r) + 1
               \/ seen'[r].excl /\ UNCHANGED out]_vars

====
